---------------------------- MODULE Spec2Model ----------------------------
(***************************************************************************)
(* State-machine model of the SandalJS component lifecycles.               *)
(*                                                                         *)
(* Every component owns one variable holding the fields of its instances   *)
(* and of the DOM nodes they touch.  `fired' is the list of events the     *)
(* last step dispatched, in dispatch order.  Each component has its own    *)
(* specification (SpecDropdown, SpecCollapse, ...) in which the other      *)
(* components do not move.                                                 *)
(*                                                                         *)
(* Event handlers are the environment: whenever the code dispatches a      *)
(* cancelable event the step chooses whether a handler prevents it.        *)
(*                                                                         *)
(* `called' is the entry point the last step ran, with its argument, in    *)
(* the specifications that record it.                                      *)
(***************************************************************************)
EXTENDS Integers, Sequences, FiniteSets, TLC

VARIABLES dropdown, collapse, carousel, modal, tooltip, affix, tab, alert,
          button, scrollspy, popover, registry, fired, called

vars == <<dropdown, collapse, carousel, modal, tooltip, affix, tab, alert,
          button, scrollspy, popover, registry, fired, called>>

(***************************************************************************)
(* Bounds                                                                  *)
(***************************************************************************)
NDropdowns == 2
MaxTimers == 1
NPanels == 2
NItems == 3
MaxQueued == 2
NModals == 2
MaxScroll == 4
MaxOps == 2
MaxSubs == 2
NTabs == 4

Dropdowns == 1..NDropdowns

Ev(name, id) == <<name, id>>

\* the last step dispatched the event
\* an entry point and its argument (0 when it takes none)
Call(name, arg) == <<name, arg>>

Fires(name, id) == \E k \in 1..Len(fired) : fired[k] = Ev(name, id)

(***************************************************************************)
(* Dropdown  (src/src/components/dropdown.js)                              *)
(*   open         the parent container carries the class `open'            *)
(*   ariaExpanded the toggle's aria-expanded attribute                     *)
(*   disabled     the toggle is disabled (class, attribute or aria)        *)
(*   inst         the registry holds a live instance for the toggle        *)
(*   handler      _documentClickHandler / _documentKeyHandler are set      *)
(*   registered   those handlers are registered on the document           *)
(*   timers       pending setTimeout(0) callbacks of _addDocumentListener  *)
(***************************************************************************)
DropdownInit ==
    [i \in Dropdowns |->
        [open |-> FALSE, ariaExpanded |-> "unset", disabled |-> FALSE,
         inst |-> FALSE, handler |-> FALSE, registered |-> FALSE,
         timers |-> 0]]

Dropdown_isShown(d, i) == d[i].open

Dropdown_removeDocumentListener(d, i) ==
    [d EXCEPT ![i].registered = IF d[i].handler THEN FALSE ELSE @,
              ![i].handler = FALSE]

Dropdown_addDocumentListener(d, i) ==
    [d EXCEPT ![i].handler = TRUE, ![i].timers = @ + 1]

\* r = [d |-> dropdown state, ev |-> events dispatched so far];
\* pv = the dropdowns whose handler prevents the cancelable event.
Dropdown_hide(r, i, pv) ==
    IF ~Dropdown_isShown(r.d, i) THEN r
    ELSE LET ev1 == Append(r.ev, Ev("hide.bs.dropdown", i)) IN
         IF i \in pv THEN [r EXCEPT !.ev = ev1]
         ELSE [d |-> Dropdown_removeDocumentListener(
                        [r.d EXCEPT ![i].open = FALSE,
                                    ![i].ariaExpanded = "false"], i),
               ev |-> Append(ev1, Ev("hidden.bs.dropdown", i))]

Dropdown_show(r, i, pv) ==
    IF r.d[i].disabled \/ Dropdown_isShown(r.d, i) THEN r
    ELSE LET ev1 == Append(r.ev, Ev("show.bs.dropdown", i)) IN
         IF i \in pv THEN [r EXCEPT !.ev = ev1]
         ELSE [d |-> Dropdown_addDocumentListener(
                        [r.d EXCEPT ![i].open = TRUE,
                                    ![i].ariaExpanded = "true"], i),
               ev |-> Append(ev1, Ev("shown.bs.dropdown", i))]

\* closeAll visits the `.open' containers in document order.
RECURSIVE Dropdown_closeAllFrom(_, _, _)
Dropdown_closeAllFrom(r, k, pv) ==
    IF k > NDropdowns THEN r
    ELSE LET r1 == IF ~r.d[k].open THEN r
                   ELSE IF r.d[k].inst THEN Dropdown_hide(r, k, pv)
                   ELSE [r EXCEPT !.d[k].open = FALSE]
         IN Dropdown_closeAllFrom(r1, k + 1, pv)

Dropdown_closeAll(r, pv) == Dropdown_closeAllFrom(r, 1, pv)

Dropdown_toggle(r, i, pvShow, pvHide) ==
    IF r.d[i].disabled THEN r
    ELSE LET isOpen == Dropdown_isShown(r.d, i)
             r1 == Dropdown_closeAll(r, pvHide)
         IN IF isOpen THEN r1 ELSE Dropdown_show(r1, i, pvShow)

DdKeys == {"ArrowDown", "Escape", "Space", "Other"}

Dropdown_handleKeydown(r, i, key, pvShow, pvHide) ==
    CASE key = "Other" -> r
      [] key = "Escape" -> Dropdown_hide(r, i, pvHide)
      [] key = "Space" -> Dropdown_toggle(r, i, pvShow, pvHide)
      [] OTHER -> IF ~Dropdown_isShown(r.d, i) THEN Dropdown_show(r, i, pvShow)
                  ELSE r   \* focus moves among the menu items

\* The capturing document click handler of dropdown i, for a click that
\* lands outside every dropdown (j = 0) or inside dropdown j, on a menu
\* item that is not in a form (item) or elsewhere in the container.
Dropdown_documentClickHandler(r, i, j, item, pv) ==
    IF j = i /\ ~item THEN r ELSE Dropdown_hide(r, i, pv)

RECURSIVE Dropdown_dispatchDocClick(_, _, _, _, _, _)
Dropdown_dispatchDocClick(r, reg, k, j, item, pv) ==
    IF k > NDropdowns THEN r
    ELSE Dropdown_dispatchDocClick(
            IF k \in reg THEN Dropdown_documentClickHandler(r, k, j, item, pv)
            ELSE r, reg, k + 1, j, item, pv)

RECURSIVE Dropdown_dispatchDocKey(_, _, _, _)
Dropdown_dispatchDocKey(r, reg, k, pv) ==
    IF k > NDropdowns THEN r
    ELSE Dropdown_dispatchDocKey(
            IF k \in reg THEN Dropdown_hide(r, k, pv) ELSE r, reg, k + 1, pv)

DdStart == [d |-> dropdown, ev |-> <<>>]

DdBounded(r) == \A i \in Dropdowns : r.d[i].timers <= MaxTimers

DdCommit(r) ==
    /\ dropdown' = r.d
    /\ fired' = r.ev
    /\ UNCHANGED <<collapse, carousel, modal, tooltip, affix, tab, alert, button, scrollspy, popover, called,
                   registry>>

\* new Dropdown(element) / Dropdown.getOrCreateInstance
DdCreate(i) ==
    /\ ~dropdown[i].inst
    /\ DdCommit([DdStart EXCEPT !.d[i].inst = TRUE])

DdToggle(i) ==
    /\ dropdown[i].inst
    /\ \E pvShow \in SUBSET {i}, pvHide \in SUBSET Dropdowns :
          LET r == Dropdown_toggle(DdStart, i, pvShow, pvHide)
          IN DdBounded(r) /\ DdCommit(r)

DdShow(i) ==
    /\ dropdown[i].inst
    /\ \E pv \in SUBSET {i} :
          LET r == Dropdown_show(DdStart, i, pv)
          IN DdBounded(r) /\ DdCommit(r)

DdHide(i) ==
    /\ dropdown[i].inst
    /\ \E pv \in SUBSET {i} : DdCommit(Dropdown_hide(DdStart, i, pv))

\* a key pressed on the toggle
DdKeydown(i) ==
    /\ dropdown[i].inst
    /\ \E key \in DdKeys, pvShow \in SUBSET {i}, pvHide \in SUBSET Dropdowns :
          LET r == Dropdown_handleKeydown(DdStart, i, key, pvShow, pvHide)
          IN DdBounded(r) /\ DdCommit(r)

\* the deferred registration of the document listeners
DdTimer(i) ==
    /\ dropdown[i].timers > 0
    /\ DdCommit([DdStart EXCEPT
                    !.d[i].timers = @ - 1,
                    !.d[i].registered = IF dropdown[i].handler THEN TRUE ELSE @])

\* a click on the document: outside every dropdown (j = 0) or inside j
DdDocClick(j) ==
    /\ j \in 0..NDropdowns
    /\ \E item \in BOOLEAN, pv \in SUBSET Dropdowns :
          /\ (j = 0) => ~item
          /\ DdCommit(Dropdown_dispatchDocClick(DdStart,
                 {k \in Dropdowns : dropdown[k].registered}, 1, j, item, pv))

\* Escape pressed outside the toggles
DdDocEscape ==
    /\ \E k \in Dropdowns : dropdown[k].registered
    /\ \E pv \in SUBSET Dropdowns :
          DdCommit(Dropdown_dispatchDocKey(DdStart,
                 {k \in Dropdowns : dropdown[k].registered}, 1, pv))

DdDispose(i) ==
    /\ dropdown[i].inst
    /\ DdCommit([d |-> [Dropdown_removeDocumentListener(dropdown, i)
                          EXCEPT ![i].inst = FALSE],
                 ev |-> <<>>])

\* the page enables or disables a toggle
DdSetDisabled(i) ==
    /\ i \in Dropdowns
    /\ DdCommit([DdStart EXCEPT !.d[i].disabled = ~@])

NextDropdown ==
    \/ \E i \in Dropdowns : DdCreate(i)
    \/ \E i \in Dropdowns : DdShow(i)
    \/ \E i \in Dropdowns : DdToggle(i)
    \/ \E i \in Dropdowns : DdHide(i)
    \/ \E i \in Dropdowns : DdKeydown(i)
    \/ \E i \in Dropdowns : DdTimer(i)
    \/ \E j \in 0..NDropdowns : DdDocClick(j)
    \/ DdDocEscape
    \/ \E i \in Dropdowns : DdDispose(i)
    \/ \E i \in Dropdowns : DdSetDisabled(i)

(***************************************************************************)
(* Collapse  (src/unnamed/part_001), the panels of one accordion: every    *)
(* instance is created with the same `parent' option.                      *)
(*   in, collapsing  classes of the element (`collapse' is present exactly *)
(*                   when `collapsing' is not)                             *)
(*   height, overflow  inline styles                                       *)
(*   expanded  aria-expanded / collapsed marker of the panel's triggers    *)
(*   inst      the registry holds a live instance                          *)
(*   trans     _isTransitioning of that instance                           *)
(*   pend      the operation of that instance that awaits its animation    *)
(***************************************************************************)
Panels == 1..NPanels

CollapseInit ==
    [i \in Panels |->
        [in |-> (i = 1), collapsing |-> FALSE, height |-> "", overflow |-> "",
         expanded |-> "unset", inst |-> FALSE, trans |-> FALSE,
         pend |-> "none"]]

\* $$('.in, .collapsing', parent) filtered to the elements of this parent
Collapse_actives(c) == {a \in Panels : c[a].in \/ c[a].collapsing}

Collapse_setTriggerState(c, i, collapsed) ==
    [c EXCEPT ![i].expanded = IF collapsed THEN "false" ELSE "true"]

Collapse_addAriaAndCollapsedClass(c, i) ==
    [c EXCEPT ![i].expanded = IF c[i].in THEN "true" ELSE "false"]

\* hide() up to its await; r = [c |-> panels, ev |-> events so far]
Collapse_hide(r, i, pv) ==
    IF r.c[i].trans \/ ~r.c[i].in THEN r
    ELSE LET ev1 == Append(r.ev, Ev("hide.bs.collapse", i)) IN
         IF i \in pv THEN [r EXCEPT !.ev = ev1]
         ELSE [c |-> Collapse_setTriggerState(
                        [r.c EXCEPT ![i].trans = TRUE, ![i].height = "px",
                                    ![i].in = FALSE, ![i].collapsing = TRUE,
                                    ![i].overflow = "hidden",
                                    ![i].pend = "hide"], i, TRUE),
               ev |-> ev1]

\* the loop over the other active panels of the accordion, in document order
RECURSIVE Collapse_closeActives(_, _, _, _, _)
Collapse_closeActives(r, actives, i, k, pv) ==
    IF k > NPanels THEN r
    ELSE LET r1 == IF k \notin actives \/ k = i THEN r
                   ELSE IF r.c[k].inst THEN Collapse_hide(r, k, pv)
                   ELSE [r EXCEPT !.c[k].in = FALSE]
         IN Collapse_closeActives(r1, actives, i, k + 1, pv)

\* show() up to its await
Collapse_show(r, i, pvShow, pvHide) ==
    IF r.c[i].trans \/ r.c[i].in THEN r
    ELSE LET actives == Collapse_actives(r.c)
             hasTransitioning ==
                \E a \in actives : r.c[a].inst /\ r.c[a].trans
         IN IF hasTransitioning THEN r
            ELSE LET ev1 == Append(r.ev, Ev("show.bs.collapse", i)) IN
                 IF i \in pvShow THEN [r EXCEPT !.ev = ev1]
                 ELSE LET r1 == Collapse_closeActives(
                                   [r EXCEPT !.ev = ev1], actives, i, 1, pvHide)
                      IN [r1 EXCEPT
                            !.c = Collapse_setTriggerState(
                                     [r1.c EXCEPT ![i].trans = TRUE,
                                                  ![i].collapsing = TRUE,
                                                  ![i].height = "0",
                                                  ![i].overflow = "hidden",
                                                  ![i].pend = "show"],
                                     i, FALSE)]

Collapse_toggle(r, i, pvShow, pvHide) ==
    IF r.c[i].in THEN Collapse_hide(r, i, pvHide)
    ELSE Collapse_show(r, i, pvShow, pvHide)

\* the code after the await of show() / hide()
Collapse_finish(r, i) ==
    IF r.c[i].pend = "show"
    THEN [c |-> [r.c EXCEPT ![i].height = "", ![i].overflow = "",
                            ![i].collapsing = FALSE, ![i].in = TRUE,
                            ![i].trans = FALSE, ![i].pend = "none"],
          ev |-> Append(r.ev, Ev("shown.bs.collapse", i))]
    ELSE [c |-> [r.c EXCEPT ![i].height = "", ![i].overflow = "",
                            ![i].collapsing = FALSE,
                            ![i].trans = FALSE, ![i].pend = "none"],
          ev |-> Append(r.ev, Ev("hidden.bs.collapse", i))]

ColStart == [c |-> collapse, ev |-> <<>>]

ColCommit(r) ==
    /\ collapse' = r.c
    /\ fired' = r.ev
    /\ UNCHANGED <<dropdown, carousel, modal, tooltip, affix, tab, alert, button, scrollspy, popover, called,
                   registry>>

\* new Collapse(element, {parent, toggle}): the constructor toggles once
\* when the toggle option is true
ColCreate(i) ==
    /\ ~collapse[i].inst
    /\ \E toggle \in BOOLEAN, pvShow \in SUBSET {i}, pvHide \in SUBSET Panels :
          LET r0 == [ColStart EXCEPT
                        !.c = Collapse_addAriaAndCollapsedClass(
                                 [collapse EXCEPT ![i].inst = TRUE,
                                                  ![i].trans = FALSE], i)]
          IN ColCommit(IF toggle THEN Collapse_toggle(r0, i, pvShow, pvHide)
                       ELSE r0)

ColShow(i) ==
    /\ collapse[i].inst
    /\ \E pvShow \in SUBSET {i}, pvHide \in SUBSET Panels :
          ColCommit(Collapse_show(ColStart, i, pvShow, pvHide))

ColHide(i) ==
    /\ collapse[i].inst
    /\ \E pvHide \in SUBSET {i} :
          ColCommit(Collapse_hide(ColStart, i, pvHide))

ColToggle(i) ==
    /\ collapse[i].inst
    /\ \E pvShow \in SUBSET {i}, pvHide \in SUBSET Panels :
          ColCommit(Collapse_toggle(ColStart, i, pvShow, pvHide))

\* the animation's `finished' promise settles
ColAnimationFinished(i) ==
    /\ collapse[i].pend # "none"
    /\ ColCommit(Collapse_finish(ColStart, i))

\* dispose(): the fields are nulled, so the code after a pending await
\* throws on this._element and changes nothing
ColDispose(i) ==
    /\ collapse[i].inst
    /\ ColCommit([ColStart EXCEPT !.c[i].inst = FALSE, !.c[i].trans = FALSE,
                                  !.c[i].pend = "none"])

NextCollapse ==
    \/ \E i \in Panels : ColCreate(i)
    \/ \E i \in Panels : ColShow(i)
    \/ \E i \in Panels : ColHide(i)
    \/ \E i \in Panels : ColToggle(i)
    \/ \E i \in Panels : ColAnimationFinished(i)
    \/ \E i \in Panels : ColDispose(i)


(***************************************************************************)
(* Carousel  (src/src/components/carousel.js), one carousel of NItems      *)
(* items, numbered in document order from 0.                               *)
(*   active     the items that carry the class `active'                    *)
(*   indicator  the indicator that carries `active'                        *)
(*   sliding    _isSliding                                                 *)
(*   interval   _interval is set: the auto-cycle timer is armed            *)
(*   paused     _isPaused                                                  *)
(*   pending    the slides that await their animations, oldest first       *)
(*   slidListeners  the listeners to() registered for `slid'; runs: how    *)
(*              many `slid' events have invoked the listener (0, 1, more)  *)
(*   wrap, animated, intervalOpt  options.wrap, the class `slide' of the   *)
(*              element, options.interval is non-zero                      *)
(*   reentrant  the page's listeners of `slide' and `slid' call back into  *)
(*              the carousel                                               *)
(* The pointer and keyboard listeners are those of the default options     *)
(* (pause: 'hover', keyboard: true).                                       *)
(***************************************************************************)
MaxPending == 2

CarItems == 0..(NItems - 1)
NoItem == -1

\* What a page's handler of `slide' / `slid' does: nothing, prevent the
\* event (slide only), or call back into the carousel.
CarCalls == {<<"next">>, <<"prev">>} \cup {<<"to", j>> : j \in CarItems}
SlideHandlers == {<<"none">>, <<"prevent">>} \cup CarCalls
SlidHandlers == {<<"none">>} \cup CarCalls
NoHandlers == [slide |-> <<"none">>, slid |-> <<"none">>]

CarouselInit(wrap, animated, intervalOpt, reentrant) ==
    [active |-> {0}, indicator |-> 0, sliding |-> FALSE,
     interval |-> intervalOpt, paused |-> FALSE, pending |-> <<>>,
     slidListeners |-> <<>>, wrap |-> wrap, animated |-> animated,
     intervalOpt |-> intervalOpt, reentrant |-> reentrant]

SetMin(S) == CHOOSE x \in S : \A y \in S : x <= y

\* the remainder operator of JavaScript: the sign follows the dividend
JsRem(a, n) == IF a < 0 THEN -((-a) % n) ELSE a % n

\* _getItemIndex($(ACTIVE_ITEM)): the first active item, -1 when none
Carousel_activeIndex(c) == IF c.active = {} THEN -1 ELSE SetMin(c.active)

\* the wrap option is not consulted
Carousel_getItemByDirection_Wraps(c, direction, activeIndex) ==
    LET delta == IF direction = "prev" THEN -1 ELSE 1
        itemIndex == JsRem(activeIndex + delta, NItems)
    IN IF itemIndex = -1 THEN NItems - 1 ELSE itemIndex

\* the remainder -1 is used as it is: items[-1] is undefined
Carousel_getItemByDirection_NoFix(c, direction, activeIndex) ==
    LET lastItemIndex == NItems - 1
        isGoingToWrap == \/ direction = "prev" /\ activeIndex = 0
                         \/ direction = "next" /\ activeIndex = lastItemIndex
    IN IF isGoingToWrap /\ ~c.wrap THEN activeIndex
       ELSE LET delta == IF direction = "prev" THEN -1 ELSE 1
                itemIndex == JsRem(activeIndex + delta, NItems)
            IN IF itemIndex = -1 THEN NoItem ELSE itemIndex

Carousel_getItemByDirection(c, direction, activeIndex) ==
    LET lastItemIndex == NItems - 1
        isGoingToWrap == \/ direction = "prev" /\ activeIndex = 0
                         \/ direction = "next" /\ activeIndex = lastItemIndex
    IN IF isGoingToWrap /\ ~c.wrap THEN activeIndex
       ELSE LET delta == IF direction = "prev" THEN -1 ELSE 1
                itemIndex == JsRem(activeIndex + delta, NItems)
            IN IF itemIndex = -1 THEN NItems - 1 ELSE itemIndex

Carousel_clearInterval(c) == [c EXCEPT !.interval = FALSE]

\* pause() and cycle(): every caller passes no event argument
Carousel_pause(c) == Carousel_clearInterval([c EXCEPT !.paused = TRUE])

Carousel_cycle(c) ==
    LET c1 == Carousel_clearInterval([c EXCEPT !.paused = FALSE])
    IN [c1 EXCEPT !.interval = c1.intervalOpt /\ ~c1.paused]

RECURSIVE Carousel_slide(_, _, _, _, _)
RECURSIVE Carousel_finish(_, _, _, _, _, _)
RECURSIVE Carousel_dispatchSlid(_, _, _)
RECURSIVE Carousel_runListeners(_, _, _, _)
RECURSIVE Carousel_to(_, _, _, _)
RECURSIVE Carousel_next(_, _, _)
RECURSIVE Carousel_prev(_, _, _)
RECURSIVE Carousel_call(_, _, _)

\* r = [c |-> carousel, ev |-> events so far]; h = what the page's handlers
\* do; they act on the events of the outermost call only (depth 0).
Carousel_next(r, h, depth) ==
    IF ~r.c.sliding THEN Carousel_slide(r, "next", NoItem, h, depth) ELSE r

Carousel_prev(r, h, depth) ==
    IF ~r.c.sliding THEN Carousel_slide(r, "prev", NoItem, h, depth) ELSE r

Carousel_to(r, index, h, depth) ==
    LET activeIndex == Carousel_activeIndex(r.c) IN
    IF index > NItems - 1 \/ index < 0 THEN r
    ELSE IF r.c.sliding
    THEN \* on(element, SLID, () => this.to(index), {once: true}): on() takes
         \* its options as the fifth argument, so the listener stays
         [r EXCEPT !.c.slidListeners = Append(@, [index |-> index, runs |-> 0])]
    ELSE IF activeIndex = index
    THEN [r EXCEPT !.c = Carousel_cycle(Carousel_pause(r.c))]
    ELSE Carousel_slide(r, IF index > activeIndex THEN "next" ELSE "prev",
                        index, h, depth)

\* a handler calling back into the carousel
Carousel_call(r, call, depth) ==
    CASE call[1] = "next" -> Carousel_next(r, NoHandlers, depth)
      [] call[1] = "prev" -> Carousel_prev(r, NoHandlers, depth)
      [] call[1] = "to" -> Carousel_to(r, call[2], NoHandlers, depth)
      [] OTHER -> r

\* the listeners registered before the dispatch began, in order
Carousel_runListeners(r, k, n, depth) ==
    IF k > n THEN r
    ELSE LET r1 == [r EXCEPT !.c.slidListeners[k].runs =
                                IF @ < 2 THEN @ + 1 ELSE @]
         IN Carousel_runListeners(
               Carousel_to(r1, r1.c.slidListeners[k].index, NoHandlers, depth + 1),
               k + 1, n, depth)

Carousel_dispatchSlid(r, h, depth) ==
    LET r1 == [r EXCEPT !.ev = Append(@, Ev("slid.bs.carousel",
                                            Carousel_activeIndex(r.c)))]
        n == Len(r.c.slidListeners)
        r2 == IF depth = 0 THEN Carousel_call(r1, h.slid, depth + 1) ELSE r1
    IN Carousel_runListeners(r2, 1, n, depth)

\* _slide() from the class swap to its end
Carousel_finish(r, from, to, isCycling, h, depth) ==
    LET r1 == [r EXCEPT !.c.active = (@ \cup {to}) \ {from},
                        !.c.sliding = FALSE]
        r2 == Carousel_dispatchSlid(r1, h, depth)
    IN IF isCycling THEN [r2 EXCEPT !.c = Carousel_cycle(r2.c)] ELSE r2

\* _slide() up to its await (all of it when the carousel is not animated)
Carousel_slide(r, direction, element, h, depth) ==
    LET activeIndex == Carousel_activeIndex(r.c)
        nextIndex == IF element # NoItem THEN element
                     ELSE IF activeIndex # -1
                     THEN Carousel_getItemByDirection(r.c, direction, activeIndex)
                     ELSE NoItem
        isCycling == r.c.interval
    IN IF nextIndex = activeIndex THEN r
       ELSE LET hs == IF depth = 0 THEN h.slide ELSE <<"none">>
                r1 == [r EXCEPT !.ev = Append(@, Ev("slide.bs.carousel", nextIndex))]
                r2 == Carousel_call(r1, hs, depth + 1)
            IN IF hs = <<"prevent">> THEN r2
               ELSE IF activeIndex = -1 \/ nextIndex = NoItem THEN r2
               ELSE LET c3 == [r2.c EXCEPT !.sliding = TRUE]
                        c4 == IF isCycling THEN Carousel_pause(c3) ELSE c3
                        c5 == [c4 EXCEPT !.indicator = nextIndex]
                    IN IF c5.animated
                       THEN [r2 EXCEPT !.c = [c5 EXCEPT !.pending =
                                Append(@, [from |-> activeIndex, to |-> nextIndex,
                                           cyc |-> isCycling])]]
                       ELSE Carousel_finish([r2 EXCEPT !.c = c5], activeIndex,
                                            nextIndex, isCycling, h, depth)

CarStart == [c |-> carousel, ev |-> <<>>]

CarBounded(r) ==
    /\ Len(r.c.pending) <= MaxPending
    /\ Len(r.c.slidListeners) <= MaxQueued

CarCommit(r) ==
    /\ carousel' = r.c
    /\ fired' = r.ev
    /\ UNCHANGED <<dropdown, collapse, modal, tooltip, affix, tab, alert, button, scrollspy, popover,
                   registry>>

\* one page handler acts in a step
CarHandlers ==
    IF carousel.reentrant
    THEN {[slide |-> x, slid |-> <<"none">>] : x \in SlideHandlers} \cup
         {[slide |-> <<"none">>, slid |-> x] : x \in SlidHandlers}
    ELSE {[slide |-> x, slid |-> <<"none">>] : x \in {<<"none">>, <<"prevent">>}}

CarNext ==
    \E h \in CarHandlers :
       LET r == Carousel_next(CarStart, h, 0) IN CarBounded(r) /\ CarCommit(r)

CarPrev ==
    \E h \in CarHandlers :
       LET r == Carousel_prev(CarStart, h, 0) IN CarBounded(r) /\ CarCommit(r)

CarTo(i) ==
    \E h \in CarHandlers :
       LET r == Carousel_to(CarStart, i, h, 0) IN CarBounded(r) /\ CarCommit(r)

\* the auto-cycle timer fires
CarTick ==
    /\ carousel.interval
    /\ \E h \in CarHandlers :
          LET r == Carousel_next(CarStart, h, 0) IN CarBounded(r) /\ CarCommit(r)

\* ArrowLeft / ArrowRight outside a text field
CarKeydown(key) ==
    \E h \in CarHandlers :
       LET r == CASE key = "ArrowLeft" -> Carousel_prev(CarStart, h, 0)
                  [] key = "ArrowRight" -> Carousel_next(CarStart, h, 0)
                  [] OTHER -> CarStart
       IN CarBounded(r) /\ CarCommit(r)

\* a touch that moved by touchDeltaX ends
CarSwipe(touchDeltaX) ==
    \E h \in CarHandlers :
       LET absDeltaX == IF touchDeltaX < 0 THEN -touchDeltaX ELSE touchDeltaX
           r == IF absDeltaX > 40
                THEN IF touchDeltaX > 0 THEN Carousel_prev(CarStart, h, 0)
                     ELSE Carousel_next(CarStart, h, 0)
                ELSE CarStart
       IN CarBounded(r) /\ CarCommit(r)

CarMouseEnter ==
    /\ carousel.interval \/ ~carousel.paused
    /\ CarCommit([CarStart EXCEPT !.c = Carousel_pause(carousel)])

CarMouseLeave ==
    /\ carousel.paused
    /\ CarCommit([CarStart EXCEPT !.c = Carousel_cycle(carousel)])

\* pause() and cycle() called by the page
CarPause ==
    /\ ~carousel.paused
    /\ CarCommit([CarStart EXCEPT !.c = Carousel_pause(carousel)])

CarCycle ==
    /\ carousel.intervalOpt
    /\ CarCommit([CarStart EXCEPT !.c = Carousel_cycle(carousel)])

\* the animations of the oldest pending slide finish
CarAnimationFinished ==
    /\ carousel.pending # <<>>
    /\ \E h \in CarHandlers :
          /\ h.slide = <<"none">>
          /\ LET p == Head(carousel.pending)
                 r == Carousel_finish([CarStart EXCEPT !.c.pending = Tail(@)],
                                      p.from, p.to, p.cyc, h, 0)
             IN CarBounded(r) /\ CarCommit(r)

CarKeys == {"ArrowLeft", "ArrowRight", "Tab"}

CarTouchDeltas == {-41, 0, 41}

NextCarousel ==
    \/ CarNext /\ UNCHANGED called
    \/ CarPrev /\ UNCHANGED called
    \/ \E i \in CarItems : CarTo(i) /\ UNCHANGED called
    \/ CarTick /\ UNCHANGED called
    \/ \E key \in CarKeys : CarKeydown(key) /\ UNCHANGED called
    \/ \E touchDeltaX \in CarTouchDeltas : CarSwipe(touchDeltaX) /\ UNCHANGED called
    \/ CarMouseEnter /\ UNCHANGED called
    \/ CarMouseLeave /\ UNCHANGED called
    \/ CarPause /\ UNCHANGED called
    \/ CarCycle /\ UNCHANGED called
    \/ CarAnimationFinished /\ UNCHANGED called

\* the same steps, each recording its entry point
NextCarouselNav ==
    \/ CarNext /\ called' = Call("next", 0)
    \/ CarPrev /\ called' = Call("prev", 0)
    \/ \E i \in CarItems : CarTo(i) /\ called' = Call("to", i)
    \/ CarTick /\ called' = Call("tick", 0)
    \/ \E key \in CarKeys : CarKeydown(key) /\ called' = Call(key, 0)
    \/ \E touchDeltaX \in CarTouchDeltas :
          CarSwipe(touchDeltaX) /\ called' = Call("touchend", touchDeltaX)
    \/ CarMouseEnter /\ called' = Call("mouseenter", 0)
    \/ CarMouseLeave /\ called' = Call("mouseleave", 0)
    \/ CarPause /\ called' = Call("pause", 0)
    \/ CarCycle /\ called' = Call("cycle", 0)
    \/ CarAnimationFinished /\ called' = Call("finished", 0)


(***************************************************************************)
(* Modal  (src/unnamed/part_004, class Modal)                              *)
(* modal.el[m] holds the fields of modal element m and of its instance:    *)
(*   inst        the registry holds a live instance for the element        *)
(*   keyboard, backdrop   the options ("true", "false", "static")          *)
(*   fade        the element carries the class fade                        *)
(*   isShown, isTransitioning   the instance fields                        *)
(*   in, display, ariaModal     class, inline style and attribute of the   *)
(*               element (role goes with aria-modal, aria-hidden is set    *)
(*               when the two are removed)                                 *)
(*   backdropRef this._backdrop is not null                                *)
(*   backdropEl  a backdrop element made for this modal is in the body     *)
(*   backdropIn  that backdrop carries the class in                        *)
(*   escRef      this._escapeHandler is defined                            *)
(*   escOn       that handler is registered on the document                *)
(*   phase       the await at which the instance's show() or hide() is     *)
(*               suspended                                                 *)
(*   isBodyOverflowing, originalPadding   the instance fields of the same  *)
(*               names (originalPadding is NoPadding while undefined)      *)
(*   paddingAtShow   the body's inline padding-right when the last show()  *)
(*               of the instance passed its guards                         *)
(* modal.bodyOpen: the body carries the class modal-open.                  *)
(* modal.bodyPadding: document.body.style.paddingRight in px, NoPadding    *)
(* when it is the empty string; the stylesheets give the body no padding.  *)
(* modal.bodyOverflowing: the layout makes _checkScrollbar() find the body *)
(* overflowing.                                                            *)
(***************************************************************************)
Modals == 1..NModals

BackdropOptions == {"true", "false", "static"}

NoPadding == -1
ScrollbarWidth == 15
BodyPaddings == {NoPadding, 5}

ModalInit(fade) ==
    [el |-> [m \in Modals |->
               [inst |-> FALSE, keyboard |-> TRUE, backdrop |-> "true",
                fade |-> fade[m], isShown |-> FALSE, isTransitioning |-> FALSE,
                in |-> FALSE, display |-> "", ariaModal |-> FALSE,
                backdropRef |-> FALSE, backdropEl |-> FALSE,
                backdropIn |-> FALSE, escRef |-> FALSE, escOn |-> FALSE,
                phase |-> "none", isBodyOverflowing |-> FALSE,
                originalPadding |-> NoPadding, paddingAtShow |-> NoPadding]],
     bodyOpen |-> FALSE, bodyPadding |-> NoPadding, bodyOverflowing |-> FALSE]

\* a variant that ignores the keyboard option
Modal_escape_Always(md) ==
    [md EXCEPT !.escRef = TRUE, !.escOn = TRUE]

Modal_escape(md) ==
    IF md.keyboard THEN [md EXCEPT !.escRef = TRUE, !.escOn = TRUE] ELSE md

\* off(document, 'keydown', this._escapeHandler): without a handler to look
\* for, off() removes every keydown handler registered on the document
Modal_offKeydown(el, m) ==
    IF el[m].escRef THEN [el EXCEPT ![m].escOn = FALSE]
    ELSE [k \in Modals |-> [el[k] EXCEPT !.escOn = FALSE]]

\* a variant that forgets the element: this._backdrop = null only
Modal_removeBackdrop_Kept(md) ==
    [md EXCEPT !.backdropRef = FALSE]

\* this._backdrop.remove(); this._backdrop = null
Modal_removeBackdrop(md) ==
    [md EXCEPT !.backdropEl = FALSE, !.backdropIn = FALSE, !.backdropRef = FALSE]

\* _showBackdrop() up to its await
Modal_showBackdrop(md) ==
    IF md.backdrop # "false"
    THEN [md EXCEPT !.backdropRef = TRUE, !.backdropEl = TRUE, !.backdropIn = TRUE]
    ELSE md

\* _showModal() up to its await
Modal_showModal(md) ==
    [md EXCEPT !.display = "block", !.ariaModal = TRUE, !.in = TRUE]

\* parseFloat(getComputedStyle(document.body).paddingRight)
Modal_computedPadding(md) ==
    IF md.bodyPadding = NoPadding THEN 0 ELSE md.bodyPadding

\* _checkScrollbar(); _setScrollbar(): md is the whole modal record
Modal_setScrollbar(md, m) ==
    LET md1 == [md EXCEPT !.el[m].isBodyOverflowing = md.bodyOverflowing]
    IN IF md1.el[m].isBodyOverflowing
       THEN [md1 EXCEPT !.el[m].originalPadding = md.bodyPadding,
                        !.bodyPadding = Modal_computedPadding(md)
                                           + ScrollbarWidth]
       ELSE md1

\* _resetScrollbar(): body.style.paddingRight = this._originalPadding || ''
Modal_resetScrollbar(md, m) ==
    [md EXCEPT !.bodyPadding = md.el[m].originalPadding]

\* _hideModal() up to its await, or to its end when it does not wait
Modal_hideModal(r, m) ==
    LET md == [r.md.el[m] EXCEPT !.display = "none", !.ariaModal = FALSE]
        md1 == IF ~md.backdropRef THEN [md EXCEPT !.phase = "hideEnd"]
               ELSE IF md.fade
               THEN [md EXCEPT !.backdropIn = FALSE, !.phase = "hideBackdrop"]
               ELSE [Modal_removeBackdrop(md) EXCEPT !.phase = "hideEnd"]
    IN [r EXCEPT !.md = Modal_resetScrollbar(
                           [r.md EXCEPT !.el[m] = md1, !.bodyOpen = FALSE], m)]

\* show() up to its first await
Modal_show(r, m, prevented) ==
    LET md == r.md.el[m] IN
    IF md.isShown \/ md.isTransitioning THEN r
    ELSE LET ev1 == Append(r.ev, Ev("show.bs.modal", m)) IN
         IF prevented THEN [r EXCEPT !.ev = ev1]
         ELSE LET md0 == Modal_setScrollbar(
                                [r.md EXCEPT !.el[m].paddingAtShow =
                                                 r.md.bodyPadding], m)
              IN [md |-> [md0 EXCEPT
                            !.el[m] = [Modal_showBackdrop(Modal_escape(
                                          [md0.el[m] EXCEPT
                                              !.isShown = TRUE,
                                              !.isTransitioning = TRUE]))
                                       EXCEPT !.phase = "showBackdrop"],
                            !.bodyOpen = TRUE],
                  ev |-> ev1]

\* hide() up to its first await
Modal_hide(r, m, prevented) ==
    LET md == r.md.el[m] IN
    IF ~md.isShown \/ md.isTransitioning THEN r
    ELSE LET ev1 == Append(r.ev, Ev("hide.bs.modal", m)) IN
         IF prevented THEN [r EXCEPT !.ev = ev1]
         ELSE LET el1 == Modal_offKeydown(
                            [r.md.el EXCEPT ![m].isShown = FALSE,
                                            ![m].isTransitioning = TRUE], m)
                  r1 == [md |-> [r.md EXCEPT !.el = [el1 EXCEPT ![m].in = FALSE]],
                         ev |-> ev1]
              IN IF md.fade THEN [r1 EXCEPT !.md.el[m].phase = "hideModal"]
                 ELSE Modal_hideModal(r1, m)

Modal_toggle(r, m, prevented) ==
    IF r.md.el[m].isShown THEN Modal_hide(r, m, prevented)
    ELSE Modal_show(r, m, prevented)

\* the code that runs when the await the instance is suspended at ends
Modal_resume(r, m) ==
    LET md == r.md.el[m] IN
    CASE md.phase = "showBackdrop" ->
            [r EXCEPT !.md.el[m] = [Modal_showModal(md) EXCEPT !.phase = "showModal"]]
      [] md.phase = "showModal" ->
            [md |-> [r.md EXCEPT !.el[m].isTransitioning = FALSE,
                                 !.el[m].phase = "none"],
             ev |-> Append(r.ev, Ev("shown.bs.modal", m))]
      [] md.phase = "hideModal" -> Modal_hideModal(r, m)
      [] md.phase \in {"hideBackdrop", "hideEnd"} ->
            [md |-> [r.md EXCEPT
                       !.el[m] = [(IF md.phase = "hideBackdrop"
                                   THEN Modal_removeBackdrop(md) ELSE md)
                                  EXCEPT !.isTransitioning = FALSE,
                                         !.phase = "none"]],
             ev |-> Append(r.ev, Ev("hidden.bs.modal", m))]
      [] OTHER -> r

\* the keydown handlers registered on the document, called one by one
RECURSIVE Modal_dispatchEscape(_, _, _, _)
Modal_dispatchEscape(r, handlers, k, pv) ==
    IF k > NModals THEN r
    ELSE LET r1 == IF k \in handlers /\ r.md.el[k].isShown
                   THEN Modal_hide(r, k, k \in pv)
                   ELSE r
         IN Modal_dispatchEscape(r1, handlers, k + 1, pv)

MdStart == [md |-> modal, ev |-> <<>>]

MdCommit(r) ==
    /\ modal' = r.md
    /\ fired' = r.ev
    /\ UNCHANGED <<dropdown, collapse, carousel, tooltip, affix, tab, alert, button, scrollspy, popover, called,
                   registry>>

\* new Modal(element, options) / Modal.getOrCreateInstance
MdCreate(m, keyboard, backdrop) ==
    /\ ~modal.el[m].inst
    /\ MdCommit([MdStart EXCEPT
                    !.md.el[m].inst = TRUE, !.md.el[m].keyboard = keyboard,
                    !.md.el[m].backdrop = backdrop,
                    !.md.el[m].isShown = FALSE,
                    !.md.el[m].isTransitioning = FALSE,
                    !.md.el[m].backdropRef = FALSE, !.md.el[m].escRef = FALSE,
                    !.md.el[m].isBodyOverflowing = FALSE,
                    !.md.el[m].originalPadding = NoPadding])

MdShow(m) ==
    /\ modal.el[m].inst
    /\ \E prevented \in BOOLEAN : MdCommit(Modal_show(MdStart, m, prevented))

\* hide() called by the page or by a click on a dismiss control
MdHide(m) ==
    /\ modal.el[m].inst
    /\ \E prevented \in BOOLEAN : MdCommit(Modal_hide(MdStart, m, prevented))

\* toggle(), also what a click on a data-toggle="modal" control calls
MdToggle(m) ==
    /\ modal.el[m].inst
    /\ \E prevented \in BOOLEAN : MdCommit(Modal_toggle(MdStart, m, prevented))

\* the await ends: a microtask, transitionend or the fallback timer
MdResume(m) ==
    /\ modal.el[m].phase # "none"
    /\ MdCommit(Modal_resume(MdStart, m))

\* Escape pressed; fired starts with the key event itself
MdDocEscape ==
    /\ \A m \in Modals : modal.el[m].phase \in
          {"none", "showBackdrop", "showModal", "hideModal", "hideBackdrop", "hideEnd"}
    /\ \E pv \in SUBSET Modals :
          MdCommit(Modal_dispatchEscape(
              [MdStart EXCEPT !.ev = <<Ev("keydown", 0)>>],
              {k \in Modals : modal.el[k].escOn}, 1, pv))

\* a click on the backdrop element
MdBackdropClick(m) ==
    /\ modal.el[m].inst /\ modal.el[m].backdropRef
    /\ \E prevented \in BOOLEAN :
          MdCommit(IF modal.el[m].backdrop # "static"
                   THEN Modal_hide(MdStart, m, prevented) ELSE MdStart)

\* a click on the modal element outside its dialog
MdClick(m) ==
    /\ modal.el[m].inst
    /\ \E prevented \in BOOLEAN :
          MdCommit(IF modal.el[m].backdrop = "true"
                   THEN Modal_hide(MdStart, m, prevented) ELSE MdStart)

\* dispose(); the suspended call of the instance then fails on its nulled
\* fields before it touches the document again
MdDispose(m) ==
    /\ modal.el[m].inst
    /\ MdCommit([MdStart EXCEPT
                    !.md.el = [Modal_offKeydown(modal.el, m) EXCEPT
                                 ![m] = [Modal_removeBackdrop(@) EXCEPT
                                           !.inst = FALSE, !.phase = "none"]]])

NextModal ==
    \/ \E m \in Modals, keyboard \in BOOLEAN, backdrop \in BackdropOptions :
          MdCreate(m, keyboard, backdrop)
    \/ \E m \in Modals : MdShow(m)
    \/ \E m \in Modals : MdHide(m)
    \/ \E m \in Modals : MdToggle(m)
    \/ \E m \in Modals : MdResume(m)
    \/ MdDocEscape
    \/ \E m \in Modals : MdBackdropClick(m)
    \/ \E m \in Modals : MdClick(m)
    \/ \E m \in Modals : MdDispose(m)

(***************************************************************************)
(* Tooltip  (src/unnamed/part_004, class Tooltip)                          *)
(*   inst        the registry holds a live instance for the element        *)
(*   isEnabled, hoverState, timeout, click   the instance fields           *)
(*               (click is _activeTrigger.click, timeout the kind of the   *)
(*               pending delay timer)                                      *)
(*   title, animation, delay   the options; delay is 0 ("none"), a         *)
(*               positive number ("number") or {show, hide} with both      *)
(*               positive ("object")                                       *)
(*   tip         this._tip has been created                                *)
(*   attached, in, fade   the tip is in the document / carries the class   *)
(*   describedby the element carries aria-describedby                      *)
(*   subs        the reposition subscriptions (autoUpdate) still active    *)
(*   cleanup     this._cleanupAutoUpdate holds the newest one's cleanup    *)
(*   ops         the suspended show()/hide() calls, oldest first, each at  *)
(*               its await: "position" (a microtask) or "transition"       *)
(***************************************************************************)
TooltipInit ==
    [inst |-> FALSE, isEnabled |-> TRUE, hoverState |-> "", timeout |-> "none",
     click |-> FALSE, title |-> TRUE, animation |-> TRUE, delay |-> "none",
     tip |-> FALSE, attached |-> FALSE, in |-> FALSE, fade |-> FALSE,
     describedby |-> FALSE, subs |-> 0, cleanup |-> FALSE, ops |-> <<>>]

TooltipDelays == {"none", "number", "object"}

\* the code of show() after its last await
Tooltip_showFinish(r) ==
    [t |-> [r.t EXCEPT !.subs = @ + 1, !.cleanup = TRUE, !.hoverState = ""],
     ev |-> Append(r.ev, Ev("shown.bs.tooltip", 0))]

\* the code of hide() after its await
Tooltip_hideFinish(r) ==
    [t |-> [r.t EXCEPT !.hoverState = "", !.click = FALSE,
                       !.attached = FALSE, !.describedby = FALSE],
     ev |-> Append(r.ev, Ev("hidden.bs.tooltip", 0))]

\* show() up to `await this._updatePosition()'
Tooltip_show(r, prevented) ==
    IF ~r.t.isEnabled THEN r
    ELSE LET ev1 == Append(r.ev, Ev("show.bs.tooltip", 0)) IN
         IF prevented THEN [r EXCEPT !.ev = ev1]
         ELSE IF ~r.t.title THEN [t |-> [r.t EXCEPT !.tip = TRUE], ev |-> ev1]
         ELSE [t |-> [r.t EXCEPT
                        !.tip = TRUE, !.in = FALSE, !.describedby = TRUE,
                        !.fade = @ \/ r.t.animation, !.attached = TRUE,
                        !.ops = Append(@, [op |-> "show", stage |-> "position"])],
               ev |-> Append(ev1, Ev("inserted.bs.tooltip", 0))]

\* show() from the end of that await to the next await or to its end
Tooltip_showPositioned(r) ==
    LET r1 == [r EXCEPT !.t.in = TRUE] IN
    IF r.t.animation
    THEN [r1 EXCEPT !.t.ops = Append(@, [op |-> "show", stage |-> "transition"])]
    ELSE Tooltip_showFinish(r1)

\* hide() up to its await, or to its end when it does not wait
Tooltip_hide(r, prevented) ==
    LET ev1 == Append(r.ev, Ev("hide.bs.tooltip", 0))
        t1 == [r.t EXCEPT !.tip = TRUE]
    IN
    IF prevented THEN [t |-> t1, ev |-> ev1]
    ELSE LET t2 == [t1 EXCEPT
                      !.subs = IF t1.cleanup THEN @ - 1 ELSE @,
                      !.cleanup = FALSE, !.in = FALSE]
         IN IF t2.animation /\ t2.fade
            THEN [t |-> [t2 EXCEPT
                           !.ops = Append(@, [op |-> "hide", stage |-> "transition"])],
                  ev |-> ev1]
            ELSE Tooltip_hideFinish([t |-> t2, ev |-> ev1])

Tooltip_enter(r, prevented) ==
    LET r1 == [r EXCEPT !.t.timeout = "none", !.t.hoverState = "in"] IN
    IF r.t.delay # "object" THEN Tooltip_show(r1, prevented)
    ELSE [r1 EXCEPT !.t.timeout = "show"]

Tooltip_leave(r, prevented) ==
    LET r1 == [r EXCEPT !.t.timeout = "none", !.t.hoverState = "out"] IN
    IF r.t.delay # "object" THEN Tooltip_hide(r1, prevented)
    ELSE [r1 EXCEPT !.t.timeout = "hide"]

\* toggle() as the click listener calls it, without an event
Tooltip_toggle(r, prevented) ==
    IF ~r.t.isEnabled THEN r
    ELSE LET r1 == [r EXCEPT !.t.tip = TRUE] IN
         IF r.t.in THEN Tooltip_leave(r1, prevented)
         ELSE Tooltip_enter(r1, prevented)

\* the callback of the delay timer
Tooltip_timeout(r, prevented) ==
    LET r1 == [r EXCEPT !.t.timeout = "none"] IN
    CASE r.t.timeout = "show" /\ r.t.hoverState = "in" -> Tooltip_show(r1, prevented)
      [] r.t.timeout = "hide" /\ r.t.hoverState = "out" -> Tooltip_hide(r1, prevented)
      [] OTHER -> r1

\* the suspended calls waiting at the given await, oldest first
Tooltip_waiting(t, stage) ==
    SelectSeq(t.ops, LAMBDA o : o.stage = stage)

\* ops without its first entry at the given stage
Tooltip_dequeue(ops, stage) ==
    LET k == CHOOSE j \in 1..Len(ops) :
                 /\ ops[j].stage = stage
                 /\ \A i \in 1..(j - 1) : ops[i].stage # stage
    IN SubSeq(ops, 1, k - 1) \o SubSeq(ops, k + 1, Len(ops))

TtStart == [t |-> tooltip, ev |-> <<>>]

TtBounded(r) ==
    /\ Len(r.t.ops) <= MaxOps
    /\ r.t.subs <= MaxSubs

TtCommit(r) ==
    /\ tooltip' = r.t
    /\ fired' = r.ev
    /\ UNCHANGED <<dropdown, collapse, carousel, modal, affix, tab, alert, button, scrollspy, popover, called,
                   registry>>

\* no microtask is pending: the event loop can run a task
TtIdle == Tooltip_waiting(tooltip, "position") = <<>>

\* new Tooltip(element, options) / Tooltip.getOrCreateInstance
TtCreate(title, animation, delay) ==
    /\ ~tooltip.inst
    /\ TtCommit([TtStart EXCEPT
                    !.t.inst = TRUE, !.t.isEnabled = TRUE, !.t.hoverState = "",
                    !.t.timeout = "none", !.t.click = FALSE, !.t.cleanup = FALSE,
                    !.t.tip = FALSE, !.t.title = title,
                    !.t.animation = animation, !.t.delay = delay])

TtShow ==
    /\ tooltip.inst
    /\ \E prevented \in BOOLEAN :
          LET r == Tooltip_show(TtStart, prevented) IN TtBounded(r) /\ TtCommit(r)

TtHide ==
    /\ tooltip.inst
    /\ \E prevented \in BOOLEAN :
          LET r == Tooltip_hide(TtStart, prevented) IN TtBounded(r) /\ TtCommit(r)

\* mouseenter or focusin on the element
TtEnter ==
    /\ tooltip.inst /\ TtIdle
    /\ \E prevented \in BOOLEAN :
          LET r == Tooltip_enter(TtStart, prevented) IN TtBounded(r) /\ TtCommit(r)

\* mouseleave or focusout on the element
TtLeave ==
    /\ tooltip.inst /\ TtIdle
    /\ \E prevented \in BOOLEAN :
          LET r == Tooltip_leave(TtStart, prevented) IN TtBounded(r) /\ TtCommit(r)

\* a click on the element, or toggle() called by the page
TtToggle ==
    /\ tooltip.inst
    /\ \E prevented \in BOOLEAN :
          LET r == Tooltip_toggle(TtStart, prevented) IN TtBounded(r) /\ TtCommit(r)

\* the delay timer fires
TtTimer ==
    /\ tooltip.timeout # "none" /\ TtIdle
    /\ \E prevented \in BOOLEAN :
          LET r == Tooltip_timeout(TtStart, prevented) IN TtBounded(r) /\ TtCommit(r)

\* the oldest show() waiting for its position resumes
TtPositioned ==
    /\ ~TtIdle
    /\ LET r == Tooltip_showPositioned(
                   [TtStart EXCEPT !.t.ops = Tooltip_dequeue(@, "position")])
       IN TtBounded(r) /\ TtCommit(r)

\* transitionend on the tip, or the fallback timer of the oldest wait
TtTransitionDone ==
    /\ TtIdle
    /\ Tooltip_waiting(tooltip, "transition") # <<>>
    /\ LET o == Head(Tooltip_waiting(tooltip, "transition"))
           r0 == [TtStart EXCEPT !.t.ops = Tooltip_dequeue(@, "transition")]
           r == IF o.op = "show" THEN Tooltip_showFinish(r0)
                ELSE Tooltip_hideFinish(r0)
       IN TtBounded(r) /\ TtCommit(r)

\* enable(), disable(), toggleEnabled()
TtSetEnabled(b) ==
    /\ tooltip.inst
    /\ tooltip.isEnabled # b
    /\ TtCommit([TtStart EXCEPT !.t.isEnabled = b])

\* dispose(); the suspended calls of the instance then fail on its nulled
\* fields before they touch the document again
TtDispose ==
    /\ tooltip.inst
    /\ TtCommit([TtStart EXCEPT
                    !.t.timeout = "none",
                    !.t.subs = IF tooltip.cleanup THEN @ - 1 ELSE @,
                    !.t.cleanup = FALSE,
                    !.t.attached = FALSE, !.t.in = FALSE, !.t.fade = FALSE,
                    !.t.tip = FALSE, !.t.inst = FALSE, !.t.ops = <<>>])

NextTooltip ==
    \/ \E title \in BOOLEAN, animation \in BOOLEAN, delay \in TooltipDelays :
          TtCreate(title, animation, delay)
    \/ TtShow
    \/ TtHide
    \/ TtEnter
    \/ TtLeave
    \/ TtToggle
    \/ TtTimer
    \/ TtPositioned
    \/ TtTransitionDone
    \/ \E b \in BOOLEAN : TtSetEnabled(b)
    \/ TtDispose

(***************************************************************************)
(* Affix  (src/unnamed/part_004, class Affix)                              *)
(*   inst          the registry holds a live instance for the element      *)
(*   dataOffset    the element's data-offset attribute                     *)
(*   classes       which of affix / affix-top / affix-bottom it carries    *)
(*   position, top the inline styles of the element                        *)
(*   display       the computed display of the element                     *)
(*   scrollTop     the scroll position of the target (the window)          *)
(*   offset        this._options.offset                                    *)
(*   affixed, unpin, pinnedOffset   the instance fields                    *)
(*   frame         a requestAnimationFrame callback of the instance waits  *)
(* null, undefined and the empty style value are <<>>, a value v is <<v>>. *)
(***************************************************************************)
Null == <<>>

Val(v) == <<v>>

AffixGeometry == [targetHeight |-> 2, offsetHeight |-> 1]

scrollHeight == MaxScroll + AffixGeometry.targetHeight

ScrollTops == 0..MaxScroll

\* a number n as offset stands for {top: n, bottom: n}
AffixOffsets ==
    {[top |-> 0, bottom |-> 0], [top |-> 1, bottom |-> 1], [top |-> 1, bottom |-> 0]}

AffixDefaults == [offset |-> Val([top |-> 0, bottom |-> 0])]

AffixInit(dataOffset) ==
    [inst |-> FALSE, dataOffset |-> dataOffset, classes |-> {},
     position |-> "", top |-> Null, display |-> "block", scrollTop |-> 0,
     offset |-> Null, affixed |-> "null", unpin |-> Null,
     pinnedOffset |-> Null, frame |-> FALSE]

\* {...a, ...b}: a key b does not define keeps a's value
Spread(a, b) == [offset |-> IF b.offset # Null THEN b.offset ELSE a.offset]

Affix_parseOffsetOption(callOffset) == [offset |-> callOffset]

\* parseDataOptions(element, DEFAULTS): the defaults, overridden by the
\* data attributes that are present
Affix_parseDataOptions(dataOffset) == Spread(AffixDefaults, [offset |-> dataOffset])

Affix_options(callOffset, dataOffset) ==
    Spread(Spread(AffixDefaults, Affix_parseOffsetOption(callOffset)),
           Affix_parseDataOptions(dataOffset))

Affix_getOffset(a) ==
    [top |-> Val(a.offset[1].top), bottom |-> Val(a.offset[1].bottom)]

\* pinTop is the top of the bounding rectangle once the element carries
\* only the class affix
Affix_getPinnedOffset(a, pinTop) ==
    IF a.pinnedOffset # Null /\ a.pinnedOffset[1] # 0 THEN a
    ELSE [a EXCEPT !.classes = (@ \ {"affix-top", "affix-bottom"}) \cup {"affix"},
                   !.pinnedOffset = Val(a.scrollTop - pinTop)]

Affix_eventSuffix(aff) ==
    CASE aff = "bottom" -> "-bottom.bs.affix"
      [] aff = "top" -> "-top.bs.affix"
      [] OTHER -> ".bs.affix"

\* posTop is the top of the element's bounding rectangle
Affix_checkPosition(r, posTop, pinTop, prevented) ==
    LET a == r.a IN
    IF ~a.inst \/ a.display = "none" THEN r
    ELSE
    LET offset == Affix_getOffset(a)
        affix0 ==
            IF a.unpin # Null /\ a.scrollTop + a.unpin[1] <= posTop THEN "false"
            ELSE IF offset.bottom # Null
            THEN IF a.scrollTop + AffixGeometry.targetHeight
                       >= scrollHeight - offset.bottom[1]
                 THEN "bottom" ELSE "null"
            ELSE IF offset.top # Null
            THEN IF a.scrollTop <= offset.top[1] THEN "top" ELSE "null"
            ELSE "null"
        aff == IF affix0 # "null" THEN affix0
                 ELSE IF a.scrollTop >= offset.top[1] THEN "true" ELSE "false"
    IN
    IF a.affixed = aff THEN r
    ELSE
    LET a1 == IF a.unpin # Null THEN [a EXCEPT !.top = Null] ELSE a
        ev1 == Append(r.ev, Ev("affix" \o Affix_eventSuffix(aff), 0))
    IN
    IF prevented THEN [a |-> a1, ev |-> ev1]
    ELSE
    LET a2 == IF aff = "bottom"
              THEN LET p == Affix_getPinnedOffset(a1, pinTop)
                   IN [p EXCEPT !.affixed = aff, !.unpin = p.pinnedOffset]
              ELSE [a1 EXCEPT !.affixed = aff, !.unpin = Null]
        a3 == [a2 EXCEPT
                 !.classes = CASE aff = "bottom" -> {"affix-bottom"}
                               [] aff = "top" -> {"affix-top"}
                               [] aff = "true" -> {"affix"}
                               [] OTHER -> {},
                 !.position = IF aff = "bottom" THEN "absolute" ELSE "",
                 !.top = IF aff = "bottom"
                         THEN Val(scrollHeight - AffixGeometry.offsetHeight
                                     - offset.bottom[1])
                         ELSE Null]
    IN [a |-> a3,
        ev |-> Append(ev1, Ev("affixed" \o Affix_eventSuffix(aff), 0))]

AffStart == [a |-> affix, ev |-> <<>>]

AffCommit(r) ==
    /\ affix' = r.a
    /\ fired' = r.ev
    /\ UNCHANGED <<dropdown, collapse, carousel, modal, tooltip, tab, alert, button, scrollspy, popover, called,
                   registry>>

\* new Affix(element, {offset: callOffset}) / Affix.getOrCreateInstance
AffCreate(callOffset) ==
    /\ ~affix.inst
    /\ \E posTop \in ScrollTops, pinTop \in ScrollTops, prevented \in BOOLEAN :
          AffCommit(Affix_checkPosition(
              [AffStart EXCEPT
                  !.a.inst = TRUE,
                  !.a.offset = Affix_options(callOffset, affix.dataOffset).offset,
                  !.a.affixed = "null", !.a.unpin = Null,
                  !.a.pinnedOffset = Null],
              posTop, pinTop, prevented))

\* the target scrolls (or the window resizes): the handler asks for a frame
AffScroll(s) ==
    /\ s # affix.scrollTop
    /\ AffCommit([AffStart EXCEPT !.a.scrollTop = s,
                                  !.a.frame = affix.inst \/ @])

\* the animation frame runs the callback
AffFrame ==
    /\ affix.frame
    /\ \E posTop \in ScrollTops, pinTop \in ScrollTops, prevented \in BOOLEAN :
          AffCommit(Affix_checkPosition([AffStart EXCEPT !.a.frame = FALSE],
                                        posTop, pinTop, prevented))

\* checkPosition() called by the page
AffCheckPosition ==
    /\ affix.inst
    /\ \E posTop \in ScrollTops, pinTop \in ScrollTops, prevented \in BOOLEAN :
          AffCommit(Affix_checkPosition(AffStart, posTop, pinTop, prevented))

\* the page hides or reveals the element
AffSetDisplay ==
    /\ affix.display \in {"block", "none"}
    /\ AffCommit([AffStart EXCEPT
                     !.a.display = IF @ = "none" THEN "block" ELSE "none"])

AffDispose ==
    /\ affix.inst
    /\ AffCommit([AffStart EXCEPT !.a.classes = {}, !.a.inst = FALSE,
                                  !.a.frame = FALSE])

NextAffix ==
    \/ \E callOffset \in {Null} \cup {Val(o) : o \in AffixOffsets} :
          AffCreate(callOffset)
    \/ \E s \in ScrollTops : AffScroll(s)
    \/ AffFrame
    \/ AffCheckPosition
    \/ AffSetDisplay
    \/ AffDispose

(***************************************************************************)
(* Tab  (src/unnamed/part_003), the links of one nav container: the first  *)
(* two links sit in top-level <li> elements, the others in the menu of one *)
(* top-level <li class="dropdown">, in document order.  Each link targets  *)
(* its own pane; the panes share one container.  $ is the selector helper  *)
(* of src/src/utils/dom.js (the first match, or null).                     *)
(*   li         the links whose parent <li> carries `active'               *)
(*   dropdownLi the dropdown's <li> carries `active'                       *)
(*   a          the links that carry `active' themselves                   *)
(*   disabled   the links that carry `disabled'                            *)
(*   inst       the links with a live instance in the registry             *)
(*   locked     the container is in transitioningContainers                *)
(*   frames     the requestAnimationFrame callbacks waiting, oldest first: *)
(*              el/previousTab as captured by show(), dead when dispose()  *)
(*              has cleared the instance's _element since                  *)
(*   pane, paneIn, fade   the panes that carry `active' / `in'; the panes  *)
(*              have the class fade                                        *)
(***************************************************************************)
Tabs == 1..NTabs

TabInMenu(t) == t > 2

NoTab == 0

TabInit(active, disabled, fade) ==
    [li |-> {active}, dropdownLi |-> TabInMenu(active), a |-> {},
     disabled |-> disabled, inst |-> {}, locked |-> FALSE, frames |-> <<>>,
     pane |-> {active}, paneIn |-> IF fade THEN {active} ELSE {}, fade |-> fade]

\* show(): the active child of the container and the tab link found in it
Tab_previousTab(tb) ==
    LET activePlain == {t \in tb.li : ~TabInMenu(t)}
        menu == {t \in Tabs : TabInMenu(t)}
        activeLinks == {t \in tb.a : ~TabInMenu(t)}
    IN IF activePlain # {} THEN SetMin(activePlain)
       ELSE IF tb.dropdownLi /\ menu # {} THEN SetMin(menu)
       ELSE IF activeLinks # {} THEN SetMin(activeLinks)
       ELSE NoTab

\* the container of another instance is not looked at
Tab_isTransitioning_PerInstance(tb, t) ==
    \E k \in 1..Len(tb.frames) : tb.frames[k].el = t /\ ~tb.frames[k].dead

\* transitioningContainers.has(listElement)
Tab_isTransitioning(tb, t) == tb.locked

\* only the <li> of the link is touched; the dropdown's <li> keeps its class
Tab_activate_KeepsDropdown(tb, t) ==
    [tb EXCEPT !.li = {t}, !.a = {},
               !.dropdownLi = @ \/ TabInMenu(t)]

\* _activate(element, container, false)
Tab_activate(tb, t) ==
    LET plainActive == {x \in tb.li : ~TabInMenu(x)}
        \* a.active inside the <li> elements that lose the class
        cleaned == plainActive \cup
                   (IF tb.dropdownLi THEN {x \in Tabs : TabInMenu(x)} ELSE {})
        \* .dropdown-menu .active
        inMenu == {x \in Tabs : TabInMenu(x)}
        li1 == (tb.li \ plainActive) \ inMenu
        a1 == (tb.a \ cleaned) \ inMenu
    IN [tb EXCEPT !.li = li1 \cup {t},
                  !.a = a1,
                  !.dropdownLi = TabInMenu(t)]

\* _activate(target, container, true)
Tab_activatePane(tb, t) ==
    [tb EXCEPT !.pane = {t},
               !.paneIn = (@ \ tb.pane) \cup (IF tb.fade THEN {t} ELSE {})]

\* show() of the instance of link t, up to requestAnimationFrame
Tab_show(r, t, pvShow, pvHide) ==
    LET tb == r.tb
        previousTab == Tab_previousTab(tb)
    IN IF Tab_isTransitioning(tb, t) THEN r
       ELSE IF t \in tb.li THEN r
       ELSE IF t \in tb.disabled THEN r
       ELSE LET r1 == [r EXCEPT !.ev = Append(@, Ev("show.bs.tab", t))]
            IN IF pvShow THEN r1
               ELSE LET hides == previousTab # NoTab /\ previousTab # t
                        r2 == IF hides
                              THEN [r1 EXCEPT !.ev = Append(@, Ev("hide.bs.tab", previousTab))]
                              ELSE r1
                    IN IF hides /\ pvHide THEN r2
                       ELSE LET tb1 == [tb EXCEPT !.locked = TRUE]
                                tb2 == Tab_activatePane(Tab_activate(tb1, t), t)
                            IN [r2 EXCEPT !.tb = [tb2 EXCEPT !.frames =
                                   Append(@, [el |-> t, previousTab |-> previousTab,
                                              dead |-> FALSE])]]

\* the callback show() passed to requestAnimationFrame; _triggerEvent
\* throws when dispose() has cleared _element
Tab_frame(r) ==
    LET f == Head(r.tb.frames)
        r1 == [r EXCEPT !.tb.frames = Tail(@), !.tb.locked = FALSE]
    IN IF f.dead THEN r1
       ELSE LET r2 == [r1 EXCEPT !.ev = Append(@, Ev("shown.bs.tab", f.el))]
            IN IF f.previousTab # NoTab /\ f.previousTab # f.el
               THEN [r2 EXCEPT !.ev = Append(@, Ev("hidden.bs.tab", f.previousTab))]
               ELSE r2

TabStart == [tb |-> tab, ev |-> <<>>]

TabCommit(r, call) ==
    /\ tab' = r.tb
    /\ fired' = r.ev
    /\ called' = call
    /\ UNCHANGED <<dropdown, collapse, carousel, modal, tooltip, affix, alert, button, scrollspy, popover,
                   registry>>

\* new Tab(element)
TabCreate(t) ==
    /\ t \notin tab.inst
    /\ TabCommit([TabStart EXCEPT !.tb.inst = @ \cup {t}], Call("new", t))

\* instance.show()
TabShow(t) ==
    /\ t \in tab.inst
    /\ \E pvShow \in BOOLEAN, pvHide \in BOOLEAN :
          TabCommit(Tab_show(TabStart, t, pvShow, pvHide), Call("show", t))

\* Tab.handleClick: getOrCreateInstance(tab).show()
TabClick(t) ==
    \E pvShow \in BOOLEAN, pvHide \in BOOLEAN :
       TabCommit(Tab_show([TabStart EXCEPT !.tb.inst = @ \cup {t}], t, pvShow, pvHide),
                 Call("click", t))

\* the next animation frame runs the oldest callback
TabFrame ==
    /\ tab.frames # <<>>
    /\ TabCommit(Tab_frame(TabStart), Call("frame", 0))

TabDispose(t) ==
    /\ t \in tab.inst
    /\ TabCommit([TabStart EXCEPT
                     !.tb.inst = @ \ {t},
                     !.tb.frames = [k \in 1..Len(@) |->
                                       IF @[k].el = t THEN [@[k] EXCEPT !.dead = TRUE]
                                       ELSE @[k]]],
                 Call("dispose", t))

NextTab ==
    \/ \E t \in Tabs : TabCreate(t)
    \/ \E t \in Tabs : TabShow(t)
    \/ \E t \in Tabs : TabClick(t)
    \/ TabFrame
    \/ \E t \in Tabs : TabDispose(t)

(***************************************************************************)
(* Alert  (src/src/components/scrollspy.js, class Alert)                   *)
(* One alert element with its dismiss button.                              *)
(*   inDom      the element is in the document                             *)
(*   inClass    the element carries the class `in'                         *)
(*   fade       the element carries the class `fade'                       *)
(*   presidecms the element is inside a .presidecms container, so the      *)
(*              document-level data-API handler matches its button         *)
(*   reg        the instance stored under the element's data key (0: none) *)
(*   inst       the instances constructed so far: inst[i] is TRUE while    *)
(*              _element is set, FALSE once dispose() nulled it            *)
(*   listeners  the instances whose dismiss listener is on the element     *)
(*   closing    the _removeElement calls suspended in `await fadeOut'      *)
(***************************************************************************)
MaxAlertInst == 2
MaxClosing == 2

AlertEl == 1

AlertInit(fade, presidecms) ==
    [inDom |-> TRUE, inClass |-> TRUE, fade |-> fade, presidecms |-> presidecms,
     reg |-> 0, inst |-> <<>>, listeners |-> {}, closing |-> <<>>]

\* constructor: setInstance, _bindDismiss
Alert_new(r) ==
    LET id == Len(r.al.inst) + 1
    IN  [r EXCEPT !.al.inst = Append(@, TRUE),
                  !.al.reg = id,
                  !.al.listeners = @ \cup {id}]

\* dispose: off(element, 'click') drops every click listener of the element,
\* removeInstance clears the data key; with _element already null both
\* helpers find nothing to do.
Alert_dispose(r, i) ==
    IF ~r.al.inst[i] THEN r
    ELSE [r EXCEPT !.al.listeners = {},
                   !.al.reg = 0,
                   !.al.inst[i] = FALSE]

\* _removeElement after the await: closed, dispose the registered instance,
\* remove the element
Alert_removed(r) ==
    LET r1 == [r EXCEPT !.ev = Append(@, Ev("closed.bs.alert", AlertEl))]
        r2 == IF r1.al.reg # 0 THEN Alert_dispose(r1, r1.al.reg) ELSE r1
    IN  [r2 EXCEPT !.al.inDom = FALSE]

\* _removeElement up to the await
Alert_removeElement(r, i) ==
    LET r1 == [r EXCEPT !.al.inClass = FALSE]
    IN  IF r1.al.fade
        THEN [r1 EXCEPT !.al.closing = Append(@, i)]
        ELSE Alert_removed(r1)

\* close() past the guard on the root element
Alert_closeElement(r, i, pv) ==
    LET r1 == [r EXCEPT !.ev = Append(@, Ev("close.bs.alert", AlertEl))]
    IN  IF pv THEN r1 ELSE Alert_removeElement(r1, i)

Alert_close_NoGuard(r, i, pv) == Alert_closeElement(r, i, pv)

\* close(): pv = a listener prevents close.bs.alert
Alert_close(r, i, pv) ==
    IF ~r.al.inst[i] THEN r ELSE Alert_closeElement(r, i, pv)

\* the dismiss listeners of the element, in registration order; a listener
\* removed by an earlier one no longer runs
RECURSIVE Alert_dismissListeners(_, _, _, _)
Alert_dismissListeners(r, i, last, pvs) ==
    IF i > last THEN r
    ELSE Alert_dismissListeners(
            IF i \in r.al.listeners THEN Alert_close(r, i, i \in pvs) ELSE r,
            i + 1, last, pvs)

\* $.fn.alert('close') of the data-API handler
Alert_plugin(r, pvs) ==
    LET r1 == IF r.al.reg = 0 THEN Alert_new(r) ELSE r
    IN  Alert_close(r1, r1.al.reg, r1.al.reg \in pvs)

\* a click on the dismiss button: element listeners, then the document
Alert_click(r, pvs) ==
    LET r1 == Alert_dismissListeners(r, 1, Len(r.al.inst), pvs)
    IN  IF r1.al.presidecms THEN Alert_plugin(r1, pvs) ELSE r1

AlertStart == [al |-> alert, ev |-> <<>>]

AlertCommit(r, call) ==
    /\ Len(r.al.inst) <= MaxAlertInst
    /\ Len(r.al.closing) <= MaxClosing
    /\ alert' = r.al
    /\ fired' = r.ev
    /\ called' = call
    /\ UNCHANGED <<dropdown, collapse, carousel, modal, tooltip, affix, tab, button, scrollspy, popover,
                   registry>>

\* new Alert(element)
AlertCreate ==
    AlertCommit(Alert_new(AlertStart), Call("new", Len(alert.inst) + 1))

\* instance.close()
AlertClose(i) ==
    /\ i \in 1..Len(alert.inst)
    /\ \E pv \in BOOLEAN :
          AlertCommit(Alert_close(AlertStart, i, pv), Call("close", i))

\* the user clicks the dismiss button
AlertClick ==
    /\ alert.inDom
    /\ \E pvs \in SUBSET (1..MaxAlertInst) :
          AlertCommit(Alert_click(AlertStart, pvs), Call("click", 0))

\* the oldest pending fadeOut resolves
AlertFadeFinished ==
    /\ alert.closing # <<>>
    /\ AlertCommit(Alert_removed([AlertStart EXCEPT !.al.closing = Tail(@)]),
                   Call("finished", 0))

\* instance.dispose()
AlertDispose(i) ==
    /\ i \in 1..Len(alert.inst)
    /\ AlertCommit(Alert_dispose(AlertStart, i), Call("dispose", i))

NextAlert ==
    \/ AlertCreate
    \/ \E i \in 1..MaxAlertInst : AlertClose(i)
    \/ AlertClick
    \/ AlertFadeFinished
    \/ \E i \in 1..MaxAlertInst : AlertDispose(i)

(***************************************************************************)
(* Button  (src/src/components/button.js)                                  *)
(* NButtons .btn elements, in document order, all inside one               *)
(* [data-toggle="buttons"] group or all standalone.                        *)
(*   grouped     the buttons have a [data-toggle="buttons"] ancestor       *)
(*   type        the type of the button's first input ("none": no input)   *)
(*   active      the buttons that carry the class `active'                 *)
(*   checked     the buttons whose input is checked                        *)
(*   ariaPressed the buttons' aria-pressed attribute                       *)
(*   focus       the button whose input has the focus (0: none)            *)
(*   inst        the buttons with a registered instance                    *)
(***************************************************************************)
NButtons == 3

Buttons == 1..NButtons

InputTypes == {"radio", "checkbox", "none"}

ButtonInit(grouped, type, active) ==
    [grouped |-> grouped, type |-> type, active |-> active,
     checked |-> {b \in active : type[b] # "none"},
     ariaPressed |-> [b \in Buttons |-> "unset"],
     focus |-> 0, inst |-> {}]

\* rootElement.querySelector('.active'): the first active button, if any,
\* loses the class and its input is unchecked
Button_deactivateActive_Noop(bt) == bt

Button_deactivateActive(bt) ==
    IF bt.active = {} THEN bt
    ELSE LET activeElement == SetMin(bt.active)
         IN  [bt EXCEPT !.active = @ \ {activeElement},
                        !.checked = @ \ {activeElement}]

\* the radio branch of toggle(): FALSE when the change event is suppressed
Button_triggerChangeEvent_Always(bt, b) == TRUE

Button_triggerChangeEvent(bt, b) ==
    ~(bt.grouped /\ bt.type[b] = "radio" /\ b \in bt.checked /\ b \in bt.active)

Button_toggle(r, b) ==
    LET bt == r.bt
        hasInput == bt.grouped /\ bt.type[b] # "none"
        triggerChangeEvent == Button_triggerChangeEvent(bt, b)
        b1 == IF hasInput /\ bt.type[b] = "radio" /\ triggerChangeEvent
              THEN Button_deactivateActive(bt) ELSE bt
        b2 == IF hasInput /\ triggerChangeEvent
              THEN [b1 EXCEPT !.checked = IF b \in b1.active THEN @ \ {b}
                                          ELSE @ \cup {b}]
              ELSE b1
        ev == IF hasInput /\ triggerChangeEvent
              THEN Append(r.ev, Ev("change", b)) ELSE r.ev
        b3 == IF hasInput THEN [b2 EXCEPT !.focus = b]
              ELSE [b2 EXCEPT !.ariaPressed[b] =
                                 IF b \in b2.active THEN "false" ELSE "true"]
        b4 == IF triggerChangeEvent
              THEN [b3 EXCEPT !.active = IF b \in @ THEN @ \ {b} ELSE @ \cup {b}]
              ELSE b3
    IN  [r EXCEPT !.bt = b4, !.ev = ev]

ButtonStart == [bt |-> button, ev |-> <<>>]

ButtonCommit(r, call) ==
    /\ button' = r.bt
    /\ fired' = r.ev
    /\ called' = call
    /\ UNCHANGED <<dropdown, collapse, carousel, modal, tooltip, affix, tab, alert, scrollspy, popover,
                   registry>>

\* new Button(element)
BtnCreate(b) ==
    /\ b \notin button.inst
    /\ ButtonCommit([ButtonStart EXCEPT !.bt.inst = @ \cup {b}], Call("new", b))

\* instance.toggle()
BtnToggle(b) ==
    /\ b \in button.inst
    /\ ButtonCommit(Button_toggle(ButtonStart, b), Call("toggle", b))

\* a click handled by the data-API: $btn.button('toggle')
BtnClick(b) ==
    ButtonCommit(Button_toggle([ButtonStart EXCEPT !.bt.inst = @ \cup {b}], b),
                 Call("toggle", b))

\* instance.dispose()
BtnDispose(b) ==
    /\ b \in button.inst
    /\ ButtonCommit([ButtonStart EXCEPT !.bt.inst = @ \ {b}], Call("dispose", b))

NextButton ==
    \/ \E b \in Buttons : BtnCreate(b)
    \/ \E b \in Buttons : BtnToggle(b)
    \/ \E b \in Buttons : BtnClick(b)
    \/ \E b \in Buttons : BtnDispose(b)

(***************************************************************************)
(* Scrollspy  (src/src/components/scrollspy.js, class Scrollspy)           *)
(* One scrollable element, a nav with one link per target section, in      *)
(* document order 1..NSpy.                                                 *)
(*   tops         the sections' offsetTop, by link; a section reaches down *)
(*                to the next section's top                                *)
(*   offset       the configured offset option                             *)
(*   maxTop       scrollHeight minus the height of the scroll element      *)
(*   scrolls      the scroll positions the page is scrolled to             *)
(*   scrollTop    the scroll position                                      *)
(*   made, live   an instance was constructed / is not disposed            *)
(*   reg          the registry holds the instance                          *)
(*   targets, offsets, activeTarget   the instance's fields (0: null)      *)
(*   observing    the current IntersectionObserver is connected            *)
(*   seen         what the observer last reported for a section            *)
(*   listeners    scroll handlers registered on the scroll element         *)
(*   frames       pending requestAnimationFrame callbacks of the handlers  *)
(*   navActive    the links (with their <li>) that carry `active'          *)
(***************************************************************************)
NSpy == 3
MaxSpyTop == 2
MaxSpyListeners == 2
MaxSpyFrames == 2

SpyTargets == 1..NSpy

NoTarget == 0

\* the documented layout: sections at 0, 300 and 700, offset 10
SpyExample ==
    [tops |-> [t \in SpyTargets |-> IF t = 1 THEN 0 ELSE IF t = 2 THEN 300 ELSE 700],
     offset |-> 10, maxTop |-> 1000, scrolls |-> {0, 305, 705, 1000}]

SpyLayouts ==
    {SpyExample} \cup
    {[tops |-> tops, offset |-> offset, maxTop |-> MaxSpyTop + 1,
      scrolls |-> 0..(MaxSpyTop + 1)] :
        tops \in [SpyTargets -> 0..MaxSpyTop], offset \in {0, 1}}

SpyInit(layout) ==
    [tops |-> layout.tops, offset |-> layout.offset, maxTop |-> layout.maxTop,
     scrolls |-> layout.scrolls, scrollTop |-> 0,
     made |-> FALSE, live |-> FALSE, reg |-> FALSE,
     targets |-> <<>>, offsets |-> <<>>, activeTarget |-> NoTarget,
     observing |-> FALSE, seen |-> [t \in SpyTargets |-> "none"],
     listeners |-> 0, frames |-> 0, navActive |-> {}]

\* items.sort((a, b) => a.offset - b.offset): a stable sort of the links
Scrollspy_sort_Unsorted(tops) == [i \in 1..NSpy |-> i]

Scrollspy_sort(tops) ==
    CHOOSE s \in [1..NSpy -> SpyTargets] :
       /\ \A i, j \in 1..NSpy : i # j => s[i] # s[j]
       /\ \A i, j \in 1..NSpy :
             i < j => \/ tops[s[i]] < tops[s[j]]
                      \/ tops[s[i]] = tops[s[j]] /\ s[i] < s[j]

Scrollspy_clear(r) == [r EXCEPT !.sp.navActive = {}]

Scrollspy_activate(r, target) ==
    LET r1 == Scrollspy_clear([r EXCEPT !.sp.activeTarget = target])
    IN  [r1 EXCEPT !.sp.navActive = {target},
                   !.ev = Append(@, Ev("activate.bs.scrollspy", target))]

\* the loop of _process, from the last offset down
RECURSIVE Scrollspy_find(_, _, _)
Scrollspy_find(r, i, scrollTop) ==
    IF i = 0 THEN r
    ELSE LET isActiveTarget ==
                /\ r.sp.activeTarget # r.sp.targets[i]
                /\ scrollTop >= r.sp.offsets[i]
                /\ (i = Len(r.sp.offsets) \/ scrollTop < r.sp.offsets[i + 1])
         IN  Scrollspy_find(IF isActiveTarget
                            THEN Scrollspy_activate(r, r.sp.targets[i]) ELSE r,
                            i - 1, scrollTop)

Scrollspy_process(r) ==
    LET scrollTop == r.sp.scrollTop + r.sp.offset
        maxScroll == r.sp.offset + r.sp.maxTop
        last == r.sp.targets[Len(r.sp.targets)]
    IN  IF Len(r.sp.offsets) = 0 THEN r
        ELSE IF scrollTop >= maxScroll
        THEN IF r.sp.activeTarget # last THEN Scrollspy_activate(r, last) ELSE r
        ELSE IF /\ r.sp.activeTarget # NoTarget
                /\ scrollTop < r.sp.offsets[1]
                /\ r.sp.offsets[1] > 0
        THEN Scrollspy_clear([r EXCEPT !.sp.activeTarget = NoTarget])
        ELSE Scrollspy_find(r, Len(r.sp.offsets), scrollTop)

Scrollspy_setupIntersectionObserver(r) ==
    IF Len(r.sp.targets) = 0 THEN r
    ELSE [r EXCEPT !.sp.observing = TRUE,
                   !.sp.seen = [t \in SpyTargets |-> "none"]]

\* refresh(): the old observer is disconnected, a new scroll handler is
\* registered on top of the ones already there
Scrollspy_refresh(r) ==
    LET s == Scrollspy_sort(r.sp.tops)
        r1 == [r EXCEPT !.sp.observing = FALSE,
                        !.sp.targets = s,
                        !.sp.offsets = [i \in 1..NSpy |-> r.sp.tops[s[i]]]]
        r2 == Scrollspy_setupIntersectionObserver(r1)
    IN  [r2 EXCEPT !.sp.listeners = @ + 1]

\* the one-pixel line of the observer's root margin lies inside the section
Scrollspy_isIntersecting(sp, t) ==
    LET line == sp.scrollTop + sp.offset
    IN  /\ sp.tops[t] <= line
        /\ \A u \in SpyTargets : sp.tops[u] > sp.tops[t] => line < sp.tops[u]

Scrollspy_seenNow(sp, t) ==
    IF Scrollspy_isIntersecting(sp, t) THEN "yes" ELSE "no"

\* the sections whose intersection changed since the observer's last report
Scrollspy_entries(sp) ==
    {sp.targets[i] : i \in {k \in 1..Len(sp.targets) :
                               sp.seen[sp.targets[k]] # Scrollspy_seenNow(sp, sp.targets[k])}}

\* the observer callback: the topmost intersecting entry is activated
Scrollspy_observe(r) ==
    LET entries == Scrollspy_entries(r.sp)
        hit == {i \in 1..Len(r.sp.targets) :
                  /\ r.sp.targets[i] \in entries
                  /\ Scrollspy_isIntersecting(r.sp, r.sp.targets[i])}
        topmost == {i \in hit : \A j \in hit :
                       r.sp.tops[r.sp.targets[i]] <= r.sp.tops[r.sp.targets[j]]}
        r1 == [r EXCEPT !.sp.seen = [t \in SpyTargets |->
                                        IF t \in entries
                                        THEN Scrollspy_seenNow(r.sp, t) ELSE @[t]]]
    IN  IF hit = {} THEN r1
        ELSE Scrollspy_activate(r1, r1.sp.targets[SetMin(topmost)])

\* dispose(): off(scrollElement, 'scroll', this._scrollHandler) removes the
\* handler of the last refresh only
Scrollspy_dispose(r) ==
    LET r1 == Scrollspy_clear([r EXCEPT !.sp.observing = FALSE,
                                        !.sp.listeners = IF @ > 0 THEN @ - 1 ELSE 0])
    IN  [r1 EXCEPT !.sp.reg = FALSE, !.sp.live = FALSE,
                   !.sp.targets = <<>>, !.sp.offsets = <<>>]

SpyStart == [sp |-> scrollspy, ev |-> <<>>]

SpyCommit(r, call) ==
    /\ r.sp.listeners <= MaxSpyListeners
    /\ r.sp.frames <= MaxSpyFrames
    /\ scrollspy' = r.sp
    /\ fired' = r.ev
    /\ called' = call
    /\ UNCHANGED <<dropdown, collapse, carousel, modal, tooltip, affix, tab, alert, button, popover,
                   registry>>

\* new Scrollspy(element, options): refresh() and _process()
SpyCreate ==
    /\ ~scrollspy.made
    /\ SpyCommit(Scrollspy_process(Scrollspy_refresh(
                    [SpyStart EXCEPT !.sp.made = TRUE, !.sp.live = TRUE,
                                     !.sp.reg = TRUE])),
                 Call("new", 0))

\* instance.refresh()
SpyRefresh ==
    /\ scrollspy.live
    /\ SpyCommit(Scrollspy_refresh(SpyStart), Call("refresh", 0))

\* the page is scrolled: every registered handler requests a frame
SpyScroll(s) ==
    /\ s \in scrollspy.scrolls
    /\ s # scrollspy.scrollTop
    /\ SpyCommit([SpyStart EXCEPT !.sp.scrollTop = s,
                                  !.sp.frames = @ + scrollspy.listeners],
                 Call("scroll", s))

\* a requested frame runs _process(); on a disposed instance the callback
\* stops at this._options.offset
SpyFrame ==
    /\ scrollspy.frames > 0
    /\ LET r == [SpyStart EXCEPT !.sp.frames = @ - 1]
       IN  SpyCommit(IF scrollspy.live THEN Scrollspy_process(r) ELSE r,
                     Call("frame", 0))

\* the IntersectionObserver reports the sections whose intersection changed
SpyObserve ==
    /\ scrollspy.observing
    /\ Scrollspy_entries(scrollspy) # {}
    /\ SpyCommit(Scrollspy_observe(SpyStart), Call("observe", 0))

\* instance.dispose()
SpyDispose ==
    /\ scrollspy.live
    /\ SpyCommit(Scrollspy_dispose(SpyStart), Call("dispose", 0))

NextScrollspy ==
    \/ SpyCreate
    \/ SpyRefresh
    \/ \E s \in scrollspy.scrolls : SpyScroll(s)
    \/ SpyFrame
    \/ SpyObserve
    \/ SpyDispose

(***************************************************************************)
(* Popover  (src/unnamed/part_000, class Popover extends Tooltip)          *)
(* The fields of Tooltip, and                                              *)
(*   content     the content option resolves non-empty                     *)
(* show(), hide(), toggle() and the suspended calls are Tooltip's; the     *)
(* events carry the popover namespace.                                     *)
(***************************************************************************)
PopoverInit ==
    [inst |-> FALSE, isEnabled |-> TRUE, hoverState |-> "", timeout |-> "none",
     click |-> FALSE, title |-> TRUE, content |-> TRUE, animation |-> TRUE,
     delay |-> "none", tip |-> FALSE, attached |-> FALSE, in |-> FALSE,
     fade |-> FALSE, describedby |-> FALSE, subs |-> 0, cleanup |-> FALSE,
     ops |-> <<>>]

\* _triggerEvent: eventType.replace('.bs.tooltip', '.bs.popover')
Popover_eventType(name) ==
    CASE name = "show.bs.tooltip" -> "show.bs.popover"
      [] name = "inserted.bs.tooltip" -> "inserted.bs.popover"
      [] name = "shown.bs.tooltip" -> "shown.bs.popover"
      [] name = "hide.bs.tooltip" -> "hide.bs.popover"
      [] name = "hidden.bs.tooltip" -> "hidden.bs.popover"
      [] OTHER -> name

Popover_triggerEvent(r) ==
    [r EXCEPT !.ev = [k \in 1..Len(@) |-> Ev(Popover_eventType(@[k][1]), @[k][2])]]

Popover_hasContent(t) == t.title \/ t.content

\* show(): super.show() unless neither title nor content resolves
Popover_show(r, prevented) ==
    IF ~Popover_hasContent(r.t) THEN r
    ELSE Popover_triggerEvent(Tooltip_show(r, prevented))

PopStart == [t |-> popover, ev |-> <<>>]

PopCommit(r, call) ==
    /\ TtBounded(r)
    /\ popover' = r.t
    /\ fired' = r.ev
    /\ called' = call
    /\ UNCHANGED <<dropdown, collapse, carousel, modal, tooltip, affix, tab, alert, button, scrollspy,
                   registry>>

PopIdle == Tooltip_waiting(popover, "position") = <<>>

\* the argument of a recorded call: 1 when a listener prevents its event
Prevents(prevented) == IF prevented THEN 1 ELSE 0

\* new Popover(element, options)
PopCreate(title, content, animation) ==
    /\ ~popover.inst
    /\ PopCommit([PopStart EXCEPT
                     !.t.inst = TRUE, !.t.isEnabled = TRUE, !.t.hoverState = "",
                     !.t.timeout = "none", !.t.click = FALSE, !.t.cleanup = FALSE,
                     !.t.tip = FALSE, !.t.title = title, !.t.content = content,
                     !.t.animation = animation],
                 Call("new", 0))

PopShow ==
    /\ popover.inst
    /\ \E prevented \in BOOLEAN :
          PopCommit(Popover_show(PopStart, prevented), Call("show", Prevents(prevented)))

PopHide ==
    /\ popover.inst
    /\ \E prevented \in BOOLEAN :
          PopCommit(Popover_triggerEvent(Tooltip_hide(PopStart, prevented)),
                    Call("hide", Prevents(prevented)))

\* a click on the element: toggle() calls _enter() or _leave(), which call
\* this.show() or this.hide()
PopToggle ==
    /\ popover.inst
    /\ \E prevented \in BOOLEAN :
          PopCommit(IF ~popover.isEnabled THEN PopStart
                    ELSE IF popover.in
                    THEN Popover_triggerEvent(
                            Tooltip_leave([PopStart EXCEPT !.t.tip = TRUE], prevented))
                    ELSE Popover_show([PopStart EXCEPT !.t.tip = TRUE,
                                                       !.t.timeout = "none",
                                                       !.t.hoverState = "in"],
                                      prevented),
                    Call("toggle", Prevents(prevented)))

\* the oldest show() waiting for its position resumes
PopPositioned ==
    /\ ~PopIdle
    /\ PopCommit(Popover_triggerEvent(Tooltip_showPositioned(
                    [PopStart EXCEPT !.t.ops = Tooltip_dequeue(@, "position")])),
                 Call("positioned", 0))

\* transitionend on the tip, or the fallback timer of the oldest wait
PopTransitionDone ==
    /\ PopIdle
    /\ Tooltip_waiting(popover, "transition") # <<>>
    /\ LET o == Head(Tooltip_waiting(popover, "transition"))
           r0 == [PopStart EXCEPT !.t.ops = Tooltip_dequeue(@, "transition")]
       IN  PopCommit(Popover_triggerEvent(IF o.op = "show" THEN Tooltip_showFinish(r0)
                                          ELSE Tooltip_hideFinish(r0)),
                     Call("transitionend", 0))

\* enable(), disable(), toggleEnabled()
PopSetEnabled(b) ==
    /\ popover.inst
    /\ popover.isEnabled # b
    /\ PopCommit([PopStart EXCEPT !.t.isEnabled = b], Call("enable", Prevents(~b)))

\* dispose()
PopDispose ==
    /\ popover.inst
    /\ PopCommit([PopStart EXCEPT
                     !.t.subs = IF popover.cleanup THEN @ - 1 ELSE @,
                     !.t.cleanup = FALSE,
                     !.t.attached = FALSE, !.t.in = FALSE, !.t.fade = FALSE,
                     !.t.tip = FALSE, !.t.inst = FALSE, !.t.ops = <<>>],
                 Call("dispose", 0))

NextPopover ==
    \/ \E title \in BOOLEAN, content \in BOOLEAN, animation \in BOOLEAN :
          PopCreate(title, content, animation)
    \/ PopShow
    \/ PopHide
    \/ PopToggle
    \/ PopPositioned
    \/ PopTransitionDone
    \/ \E b \in BOOLEAN : PopSetEnabled(b)
    \/ PopDispose

(***************************************************************************)
(* The instance registry of one element  (src/src/utils/index.js, 28-49)   *)
(* on which the page constructs Tooltip, Popover and Button instances.     *)
(*   data   the instance stored under each data key (0: none)              *)
(*   kind   the kind of each instance constructed so far                   *)
(*   live   the instances whose _element is still set                      *)
(***************************************************************************)
MaxRegInst == 3

Kinds == {"tooltip", "popover", "button"}

NoInstance == 0

Registry_key(kind) ==
    CASE kind = "tooltip" -> "bs.tooltip"
      [] kind = "popover" -> "bs.popover"
      [] kind = "button" -> "bs.button"

DataKeys == {Registry_key(kind) : kind \in Kinds}

RegistryInit ==
    [data |-> [key \in DataKeys |-> NoInstance], kind |-> <<>>, live |-> {}]

setInstance(g, key, instance) == [g EXCEPT !.data[key] = instance]

getInstance(g, key) == g.data[key]

removeInstance(g, key) == [g EXCEPT !.data[key] = NoInstance]

\* Tooltip.constructor and Button.constructor: setInstance under the own key
Registry_construct(g, kind) ==
    LET id == Len(g.kind) + 1
    IN setInstance([g EXCEPT !.kind = Append(@, kind), !.live = @ \cup {id}],
                   Registry_key(kind), id)

\* Popover.constructor: super(), then removeInstance(Tooltip.DATA_KEY) and
\* setInstance under the popover key
Popover_new(g) ==
    LET id == Len(g.kind) + 1
        g1 == Registry_construct(g, "tooltip")
    IN setInstance(removeInstance([g1 EXCEPT !.kind[id] = "popover"],
                                  Registry_key("tooltip")),
                   Registry_key("popover"), id)

\* dispose() of a live instance: removeInstance under the own key
Registry_dispose(g, i) ==
    [removeInstance(g, Registry_key(g.kind[i])) EXCEPT !.live = @ \ {i}]

RegCommit(g, call) ==
    /\ Len(g.kind) <= MaxRegInst
    /\ registry' = g
    /\ fired' = <<>>
    /\ called' = call
    /\ UNCHANGED <<dropdown, collapse, carousel, modal, tooltip, affix, tab,
                   alert, button, scrollspy, popover>>

\* new Tooltip(el) / new Popover(el) / new Button(el)
RegCreate(kind) ==
    RegCommit(IF kind = "popover" THEN Popover_new(registry)
              ELSE Registry_construct(registry, kind),
              Call(kind, Len(registry.kind) + 1))

RegDispose(i) ==
    /\ i \in registry.live
    /\ RegCommit(Registry_dispose(registry, i), Call("dispose", i))

NextRegistry ==
    \/ \E kind \in Kinds : RegCreate(kind)
    \/ \E i \in 1..MaxRegInst : RegDispose(i)

\* The state after the page has loaded; a specification lets the options
\* of its own component vary.
InitRest ==
    /\ tab = TabInit(1, {}, TRUE)
    /\ alert = AlertInit(TRUE, TRUE)
    /\ button = ButtonInit(TRUE, [b \in Buttons |-> "radio"], {})
    /\ scrollspy = SpyInit(SpyExample)
    /\ popover = PopoverInit
    /\ registry = RegistryInit
    /\ called = Call("load", 0)

InitOthers ==
    /\ modal = ModalInit([m \in Modals |-> TRUE])
    /\ tooltip = TooltipInit
    /\ affix = AffixInit(Null)
    /\ fired = <<>>
    /\ InitRest

InitDropdown ==
    /\ dropdown = DropdownInit
    /\ collapse = CollapseInit
    /\ carousel = CarouselInit(TRUE, TRUE, TRUE, TRUE)
    /\ InitOthers

SpecDropdown == InitDropdown /\ [][NextDropdown]_vars

\* C1 (as claimed): at most one dropdown container carries the open marker
\* class, however a dropdown is opened (toggle, show, arrow key).
C1_AtMostOneOpen ==
    Cardinality({i \in Dropdowns : dropdown[i].open}) <= 1

InitCollapse == InitDropdown

SpecCollapse == InitCollapse /\ [][NextCollapse]_vars

\* C2 (as claimed): in an accordion group two members never carry the
\* expanded marker at once, whatever the handlers attached to them do.
C2_NeverBothExpanded ==
    Cardinality({i \in Panels : collapse[i].in}) <= 1

InitCarousel ==
    /\ dropdown = DropdownInit
    /\ collapse = CollapseInit
    /\ \E wrap \in BOOLEAN, animated \in BOOLEAN, intervalOpt \in BOOLEAN :
          carousel = CarouselInit(wrap, animated, intervalOpt, TRUE)
    /\ InitOthers

SpecCarousel == InitCarousel /\ [][NextCarousel]_vars

\* the timers of the event loop fire; nothing makes an animation finish
SpecCarouselFair == SpecCarousel /\ WF_vars(CarTick /\ UNCHANGED called)

\* C3 (as claimed): whenever no slide is in flight exactly one item carries
\* the active class.
C3_ExactlyOneActive ==
    (~carousel.sliding /\ carousel.pending = <<>>)
        => Cardinality(carousel.active) = 1

\* C4 (as claimed): the listener a to(i) call queues during a slide is
\* consumed by the first `slid' that invokes it: no later `slid' invokes
\* to(i) through it again.
C4_QueuedToRunsOnce ==
    \A k \in 1..Len(carousel.slidListeners) : carousel.slidListeners[k].runs <= 1

\* C7 (as claimed): an operation that set its in-flight flag eventually
\* clears it, also when the animation's completion never arrives.
C7_InFlightEventuallyClears ==
    carousel.sliding ~> ~carousel.sliding

InitCarouselNav ==
    /\ dropdown = DropdownInit
    /\ collapse = CollapseInit
    /\ \E wrap \in BOOLEAN, animated \in BOOLEAN, intervalOpt \in BOOLEAN :
          carousel = CarouselInit(wrap, animated, intervalOpt, FALSE)
    /\ InitOthers

\* a page whose listeners do not call back into the carousel
SpecCarouselNav == InitCarouselNav /\ [][NextCarouselNav]_vars

\* no slide is in flight and one item is active
CarouselAtRest(i) ==
    /\ carousel.active = {i}
    /\ ~carousel.sliding
    /\ carousel.pending = <<>>

\* C11: with wrap off, prev() on the first item and next() on the last item
\* leave the active item as it is and dispatch neither slide nor slid.
C11_NoWrapStaysAtEnd ==
    [][/\ (~carousel.wrap /\ CarouselAtRest(0) /\ called' = Call("prev", 0))
             => (carousel' = carousel /\ fired' = <<>>)
       /\ (~carousel.wrap /\ CarouselAtRest(NItems - 1) /\ called' = Call("next", 0))
             => (carousel' = carousel /\ fired' = <<>>)
      ]_vars

\* next() has just been called on the last item of a carousel that does
\* not wrap, after the carousel slid there
C11_Witness ==
    /\ ~carousel.wrap
    /\ CarouselAtRest(NItems - 1)
    /\ called = Call("next", 0)
    /\ fired = <<>>

\* the slide a step started from item `from' goes to item `to': the slide
\* event names it, and unless a listener prevented the event the item is
\* active at once (no animation) or is the target of the slide in flight
CarouselStarted(from, to) ==
    /\ Len(fired') >= 1
    /\ fired'[1] = Ev("slide.bs.carousel", to)
    /\ \/ carousel' = carousel
       \/ ~carousel.animated /\ carousel'.active = {to}
                             /\ Fires("slid.bs.carousel", to)'
       \/ /\ carousel.animated
          /\ carousel'.sliding
          /\ carousel'.active = {from}
          /\ Len(carousel'.pending) = 1
          /\ carousel'.pending[1].from = from
          /\ carousel'.pending[1].to = to

\* C12: with wrap on, next() on the last item slides to item 0 and prev()
\* on item 0 slides to the last item; when the slide in flight completes its
\* target is the active item.
C12_WrapsAround ==
    [][/\ (carousel.wrap /\ CarouselAtRest(NItems - 1) /\ called' = Call("next", 0))
             => CarouselStarted(NItems - 1, 0)
       /\ (carousel.wrap /\ CarouselAtRest(0) /\ called' = Call("prev", 0))
             => CarouselStarted(0, NItems - 1)
       /\ (carousel.pending # <<>> /\ called' = Call("finished", 0))
             => /\ carousel'.active = {Head(carousel.pending).to}
                /\ \E k \in 1..Len(fired') :
                      fired'[k] = Ev("slid.bs.carousel", Head(carousel.pending).to)
      ]_vars

\* prev() on item 0 of a wrapping carousel without animation has just made
\* the last item active
C12_Witness ==
    /\ carousel.wrap
    /\ called = Call("prev", 0)
    /\ carousel.active = {NItems - 1}
    /\ fired = <<Ev("slide.bs.carousel", NItems - 1), Ev("slid.bs.carousel", NItems - 1)>>

\* C13 (as claimed): while a slide is in flight the auto-cycle timer is not
\* armed, whatever pointer events and cycle() calls occur meanwhile.
C13_NoTimerWhileSliding ==
    carousel.sliding => ~carousel.interval

\* a request for the next or the previous item: a call, a tick of the
\* auto-cycle timer, an arrow key or a swipe
CarouselRequest ==
    \/ CarNext
    \/ CarPrev
    \/ CarTick
    \/ \E key \in {"ArrowLeft", "ArrowRight"} : CarKeydown(key)
    \/ \E touchDeltaX \in {-41, 41} : CarSwipe(touchDeltaX)

\* C14 (as claimed): a next or prev request that arrives while a slide is in
\* flight dispatches no slide event and leaves the slides in flight as they
\* are.
C14_RequestInFlightIsDropped ==
    [][(carousel.pending # <<>> /\ CarouselRequest)
          => (carousel'.pending = carousel.pending
              /\ \A k \in 1..Len(fired') : fired'[k][1] # "slide.bs.carousel")
      ]_vars

InitAffix ==
    /\ dropdown = DropdownInit
    /\ collapse = CollapseInit
    /\ carousel = CarouselInit(TRUE, TRUE, TRUE, TRUE)
    /\ modal = ModalInit([m \in Modals |-> TRUE])
    /\ tooltip = TooltipInit
    /\ \E dataOffset \in {Null} \cup {Val(o) : o \in AffixOffsets} :
          affix = AffixInit(dataOffset)
    /\ fired = <<>>
    /\ InitRest

SpecAffix == InitAffix /\ [][NextAffix]_vars

AffixDom == <<affix.classes, affix.position, affix.top>>

AffixState == <<affix.affixed, affix.unpin, affix.pinnedOffset>>

\* the last step dispatched a cancelable affix event and no affixed event:
\* a handler prevented it
AffixPrevented ==
    /\ Len(fired) = 1
    /\ fired[1][1] \in {"affix.bs.affix", "affix-top.bs.affix", "affix-bottom.bs.affix"}

\* C8 (as claimed): a step whose cancelable pre-event was prevented leaves
\* the classes, the inline styles and the instance fields as they were.
C8_PreventedLeavesNoTrace ==
    [][AffixPrevented' /\ affix.inst => (AffixDom' = AffixDom /\ AffixState' = AffixState)]_vars

InitTooltip == InitDropdown

SpecTooltip == InitTooltip /\ [][NextTooltip]_vars

InitModal ==
    /\ dropdown = DropdownInit
    /\ collapse = CollapseInit
    /\ carousel = CarouselInit(TRUE, TRUE, TRUE, TRUE)
    /\ \E fade \in [Modals -> BOOLEAN] : modal = ModalInit(fade)
    /\ tooltip = TooltipInit
    /\ affix = AffixInit(Null)
    /\ fired = <<>>
    /\ InitRest

SpecModal == InitModal /\ [][NextModal]_vars

\* the tip is open (closed) and no show() or hide() of the tooltip is suspended
TooltipShown ==
    tooltip.inst /\ tooltip.attached /\ tooltip.in /\ tooltip.ops = <<>>

TooltipHidden ==
    tooltip.inst /\ ~tooltip.attached /\ ~tooltip.in /\ tooltip.ops = <<>>

\* a show() or hide() of the tooltip is waiting for the tip's transition
TooltipInTransition ==
    tooltip.inst /\ Tooltip_waiting(tooltip, "transition") # <<>>

\* C5 (as claimed): show on an instance that is already shown and hide on
\* one that is already hidden dispatch no event (Tooltip, Modal, Dropdown,
\* Collapse).
C5_RepeatedCallIsNoOp ==
    [][/\ TooltipShown => ~Fires("show.bs.tooltip", 0)'
       /\ TooltipHidden => ~Fires("hide.bs.tooltip", 0)'
       /\ \A m \in Modals :
             /\ (modal.el[m].inst /\ modal.el[m].isShown /\ ~modal.el[m].isTransitioning)
                   => ~Fires("show.bs.modal", m)'
             /\ (modal.el[m].inst /\ ~modal.el[m].isShown /\ ~modal.el[m].isTransitioning)
                   => ~Fires("hide.bs.modal", m)'
       /\ \A i \in Dropdowns :
             /\ (dropdown[i].inst /\ dropdown[i].open) => ~Fires("show.bs.dropdown", i)'
             /\ (dropdown[i].inst /\ ~dropdown[i].open) => ~Fires("hide.bs.dropdown", i)'
       /\ \A i \in Panels :
             /\ (collapse[i].inst /\ collapse[i].in /\ ~collapse[i].trans)
                   => ~Fires("show.bs.collapse", i)'
             /\ (collapse[i].inst /\ ~collapse[i].in /\ ~collapse[i].trans)
                   => ~Fires("hide.bs.collapse", i)'
      ]_vars

\* C6 (as claimed): while a show or hide transition of an instance is in
\* flight, no show or hide event of that instance is dispatched (Tooltip,
\* Modal, Collapse).
C6_CallInFlightIsDropped ==
    [][/\ TooltipInTransition
             => ~Fires("show.bs.tooltip", 0)' /\ ~Fires("hide.bs.tooltip", 0)'
       /\ \A m \in Modals :
             (modal.el[m].inst /\ modal.el[m].isTransitioning)
                => ~Fires("show.bs.modal", m)' /\ ~Fires("hide.bs.modal", m)'
       /\ \A i \in Panels :
             (collapse[i].inst /\ collapse[i].trans)
                => ~Fires("show.bs.collapse", i)' /\ ~Fires("hide.bs.collapse", i)'
      ]_vars

\* C9: when shown.bs.modal is dispatched the element carries in and
\* aria-modal and, unless the backdrop option is false, its backdrop is in
\* the body; when hidden.bs.modal is dispatched the element lacks in, has
\* display none and no backdrop of the modal is left in the body.
C9_ShownAndHiddenDom ==
    \A m \in Modals :
       /\ Fires("shown.bs.modal", m) =>
             /\ modal.el[m].in
             /\ modal.el[m].ariaModal
             /\ modal.el[m].backdrop # "false" => modal.el[m].backdropEl
       /\ Fires("hidden.bs.modal", m) =>
             /\ ~modal.el[m].in
             /\ modal.el[m].display = "none"
             /\ ~modal.el[m].backdropEl

\* a modal with a fading backdrop has been shown and hidden again
C9_Witness ==
    \E m \in Modals :
       /\ Fires("hidden.bs.modal", m)
       /\ modal.el[m].backdrop # "false"
       /\ modal.el[m].fade

\* the last step was an Escape key press
EscapePressed == Len(fired) > 0 /\ fired[1] = Ev("keydown", 0)

\* C10: an Escape press starts a hide of a modal only if the modal is shown
\* and its keyboard option is enabled.
C10_EscapeNeedsShownAndKeyboard ==
    [][\A m \in Modals :
          (EscapePressed' /\ Fires("hide.bs.modal", m)')
             => (modal.el[m].inst /\ modal.el[m].isShown /\ modal.el[m].keyboard)
      ]_vars

\* an Escape press has just closed a shown modal
C10_Witness ==
    /\ EscapePressed
    /\ \E m \in Modals :
          /\ Fires("hide.bs.modal", m)
          /\ modal.el[m].keyboard
          /\ ~modal.el[m].isShown
          /\ modal.el[m].isTransitioning

InitTab ==
    /\ dropdown = DropdownInit
    /\ collapse = CollapseInit
    /\ carousel = CarouselInit(TRUE, TRUE, TRUE, TRUE)
    /\ modal = ModalInit([m \in Modals |-> TRUE])
    /\ tooltip = TooltipInit
    /\ affix = AffixInit(Null)
    /\ \E active \in Tabs, fade \in BOOLEAN :
       \E disabled \in {{}} \cup {{t} : t \in Tabs \ {active}} :
          tab = TabInit(active, disabled, fade)
    /\ alert = AlertInit(TRUE, TRUE)
    /\ button = ButtonInit(TRUE, [b \in Buttons |-> "radio"], {})
    /\ fired = <<>>
    /\ scrollspy = SpyInit(SpyExample)
    /\ popover = PopoverInit
    /\ registry = RegistryInit
    /\ called = Call("load", 0)

SpecTab == InitTab /\ [][NextTab]_vars

\* the top-level <li> elements of the container that carry `active'
TabActiveTopLevel ==
    Cardinality({t \in tab.li : ~TabInMenu(t)}) + (IF tab.dropdownLi THEN 1 ELSE 0)

\* C15: exactly one top-level <li> of the container carries the active
\* class and no link carries it.
C15_OneActiveLi ==
    TabActiveTopLevel = 1 /\ tab.a = {}

\* a tab in a top-level <li> has just replaced a tab of the dropdown menu
C15_Witness ==
    /\ called[1] \in {"show", "click"}
    /\ ~TabInMenu(called[2])
    /\ tab.li = {called[2]}
    /\ \E p \in Tabs : TabInMenu(p) /\ Fires("hide.bs.tab", p)

\* the classes the tabs and the panes carry
TabClasses == <<tab.li, tab.dropdownLi, tab.a, tab.pane, tab.paneIn>>

\* C16: show() on a link of a container whose transition is under way
\* (a requestAnimationFrame callback of the container waits) dispatches
\* nothing and changes no class, whichever instance is called.
C16_LockIsPerContainer ==
    [][(tab.frames # <<>> /\ called'[1] \in {"show", "click"})
          => (fired' = <<>> /\ TabClasses' = TabClasses)
      ]_vars

\* show() has just been called on another link than the one in transition
C16_Witness ==
    /\ tab.frames # <<>>
    /\ called[1] = "show"
    /\ called[2] # tab.frames[1].el
    /\ called[2] \notin tab.li
    /\ called[2] \notin tab.disabled
    /\ fired = <<>>

\* the link whose tab is active: its <li> carries the class, and so does
\* the dropdown's <li> when the link is in the menu
TabActiveLink(tb) ==
    LET S == {t \in tb.li : TabInMenu(t) => tb.dropdownLi}
    IN IF S = {} THEN NoTab ELSE SetMin(S)

\* C17 (as claimed): a show() that swaps the classes has dispatched show on
\* the new tab and then hide on the previous tab, and nothing else; shown on
\* the new tab and then hidden on the previous tab are dispatched by a later
\* frame, when the new tab's <li> carries the class.
C17_EventOrder ==
    [][/\ \A t \in Tabs :
             (called'[1] \in {"show", "click"} /\ called'[2] = t
                 /\ t \notin tab.li /\ t \in tab'.li)
                => /\ fired' = <<Ev("show.bs.tab", t), Ev("hide.bs.tab", TabActiveLink(tab))>>
                   /\ Len(tab'.frames) = Len(tab.frames) + 1
       /\ (called'[1] \in {"show", "click"})
             => \A k \in 1..Len(fired') : fired'[k][1] \in {"show.bs.tab", "hide.bs.tab"}
       /\ (called'[1] = "frame" /\ ~Head(tab.frames).dead)
             => /\ Head(tab.frames).el \in tab.li
                /\ fired' = <<Ev("shown.bs.tab", Head(tab.frames).el),
                              Ev("hidden.bs.tab", Head(tab.frames).previousTab)>>
      ]_vars

InitAlert ==
    /\ dropdown = DropdownInit
    /\ collapse = CollapseInit
    /\ carousel = CarouselInit(TRUE, TRUE, TRUE, TRUE)
    /\ modal = ModalInit([m \in Modals |-> TRUE])
    /\ tooltip = TooltipInit
    /\ affix = AffixInit(Null)
    /\ tab = TabInit(1, {}, TRUE)
    /\ \E fade \in BOOLEAN, presidecms \in BOOLEAN :
          alert = AlertInit(fade, presidecms)
    /\ button = ButtonInit(TRUE, [b \in Buttons |-> "radio"], {})
    /\ fired = <<>>
    /\ scrollspy = SpyInit(SpyExample)
    /\ popover = PopoverInit
    /\ registry = RegistryInit
    /\ called = Call("load", 0)

SpecAlert == InitAlert /\ [][NextAlert]_vars

\* C18: once a close() that was not prevented has settled (closed.bs.alert
\* was dispatched), the alert element is out of the document and every
\* instance the element's registry held before is disposed, the registry
\* holding nothing older; and close() on a disposed instance changes
\* nothing and dispatches no event.
C18_ClosedAlertIsGone ==
    [][ /\ (\E k \in 1..Len(fired') : fired'[k] = Ev("closed.bs.alert", AlertEl))
           => /\ ~alert'.inDom
              /\ alert.reg # 0 => ~alert'.inst[alert.reg]
              /\ alert'.reg = 0 \/ alert'.reg > Len(alert.inst)
        /\ (called'[1] = "close" /\ called'[2] \in 1..Len(alert.inst)
              /\ ~alert.inst[called'[2]])
           => alert' = alert /\ fired' = <<>> ]_vars

\* close() was called on an instance that a settled close had disposed
C18_Witness ==
    /\ ~alert.inDom
    /\ alert.reg = 0
    /\ called[1] = "close"
    /\ called[2] \in 1..Len(alert.inst)
    /\ ~alert.inst[called[2]]
    /\ fired = <<>>

\* a group with every mix of input types, or standalone buttons (whose
\* inputs toggle() never looks at); at most one button is active and the
\* inputs are checked as the active classes say
InitButton ==
    /\ dropdown = DropdownInit
    /\ collapse = CollapseInit
    /\ carousel = CarouselInit(TRUE, TRUE, TRUE, TRUE)
    /\ modal = ModalInit([m \in Modals |-> TRUE])
    /\ tooltip = TooltipInit
    /\ affix = AffixInit(Null)
    /\ tab = TabInit(1, {}, TRUE)
    /\ alert = AlertInit(TRUE, TRUE)
    /\ \E grouped \in BOOLEAN, type \in [Buttons -> InputTypes] :
       \E active \in {{}} \cup {{b} : b \in Buttons} :
          /\ grouped \/ \A b \in Buttons : type[b] = "none"
          /\ button = ButtonInit(grouped, type, active)
    /\ fired = <<>>
    /\ scrollspy = SpyInit(SpyExample)
    /\ popover = PopoverInit
    /\ registry = RegistryInit
    /\ called = Call("load", 0)

SpecButton == InitButton /\ [][NextButton]_vars

\* C19: in a button group, toggle() on a button that is active and whose
\* radio input is checked dispatches no change event, leaves the input
\* checked and does not toggle the active class.
C19_CheckedRadioIsNoOp ==
    [][ \A b \in Buttons :
           (/\ called' = Call("toggle", b)
            /\ button.grouped
            /\ button.type[b] = "radio"
            /\ b \in button.checked
            /\ b \in button.active)
           => /\ fired' = <<>>
              /\ button'.checked = button.checked
              /\ button'.active = button.active ]_vars

\* toggle() was called on the checked, active radio button of a group
C19_Witness ==
    /\ called[1] = "toggle"
    /\ button.grouped
    /\ button.type[called[2]] = "radio"
    /\ called[2] \in button.checked
    /\ called[2] \in button.active
    /\ fired = <<>>

ButtonAllRadio == button.grouped /\ \A b \in Buttons : button.type[b] = "radio"

\* C20: in a group of radio buttons that starts with at most one active
\* button, at most one button is active and its radio is the only checked
\* one; toggling a checkbox button of a group deactivates no other button.
C20_RadioGroupExclusive ==
    [][ /\ ButtonAllRadio
           => /\ Cardinality(button'.active) <= 1
              /\ \A b \in button'.active : button'.checked = {b}
        /\ \A b \in Buttons :
              (called' = Call("toggle", b) /\ button.grouped
                 /\ button.type[b] = "checkbox")
              => button.active \ {b} \subseteq button'.active ]_vars

\* a second radio button of the group was toggled while another was active
C20_Witness ==
    /\ ButtonAllRadio
    /\ called[1] = "toggle"
    /\ button.active = {called[2]}
    /\ button.checked = {called[2]}
    /\ fired = <<Ev("change", called[2])>>
    /\ button.focus = called[2]

InitScrollspy ==
    /\ dropdown = DropdownInit
    /\ collapse = CollapseInit
    /\ carousel = CarouselInit(TRUE, TRUE, TRUE, TRUE)
    /\ modal = ModalInit([m \in Modals |-> TRUE])
    /\ tooltip = TooltipInit
    /\ affix = AffixInit(Null)
    /\ tab = TabInit(1, {}, TRUE)
    /\ alert = AlertInit(TRUE, TRUE)
    /\ button = ButtonInit(TRUE, [b \in Buttons |-> "radio"], {})
    /\ \E layout \in SpyLayouts : scrollspy = SpyInit(layout)
    /\ fired = <<>>
    /\ popover = PopoverInit
    /\ registry = RegistryInit
    /\ called = Call("load", 0)

SpecScrollspy == InitScrollspy /\ [][NextScrollspy]_vars

\* a step that ran _process() on the live instance
SpyProcessed ==
    \/ called' = Call("new", 0)
    \/ called' = Call("frame", 0) /\ scrollspy.live

\* C21: the offsets are kept sorted, and when _process() runs at an
\* effective position p (scroll position plus configured offset) below the
\* maximum scroll extent, the active target afterwards is the target i with
\* offsets[i] <= p < offsets[i+1], or the last one when p is at or past its
\* offset.
C21_ActivationRule ==
    [][ SpyProcessed =>
          LET p == scrollspy'.scrollTop + scrollspy'.offset
              n == Len(scrollspy'.offsets)
          IN  /\ \A i \in 1..(n - 1) : scrollspy'.offsets[i] <= scrollspy'.offsets[i + 1]
              /\ \A i \in 1..n : scrollspy'.offsets[i] = scrollspy'.tops[scrollspy'.targets[i]]
              /\ p < scrollspy'.offset + scrollspy'.maxTop
                   => \A i \in 1..n :
                         (/\ scrollspy'.offsets[i] <= p
                          /\ (i = n \/ p < scrollspy'.offsets[i + 1]))
                         => scrollspy'.activeTarget = scrollspy'.targets[i] ]_vars

\* sections at 0, 300 and 700 with offset 10: at scroll position 305 the
\* frame activated the second target
C21_Witness ==
    /\ scrollspy.tops = SpyExample.tops
    /\ scrollspy.offset = 10
    /\ scrollspy.scrollTop = 305
    /\ called = Call("frame", 0)
    /\ scrollspy.activeTarget = 2
    /\ fired = <<Ev("activate.bs.scrollspy", 2)>>

\* C22 (as claimed): activate.bs.scrollspy is dispatched for a target only
\* in a step in which the active target changes to it, on either detection
\* path.
C22_ActivateOnlyOnChange ==
    [][ \A t \in SpyTargets :
           (\E k \in 1..Len(fired') : fired'[k] = Ev("activate.bs.scrollspy", t))
           => scrollspy.activeTarget # t ]_vars

\* the bottom-pin condition of _checkPosition for the effective offset
AffixAtBottom(a) ==
    a.scrollTop + AffixGeometry.targetHeight >= scrollHeight - a.offset[1].bottom

\* C23 (as claimed): a position check that changes the state while no unpin
\* applies, the bottom-pin condition is not met and the scroll position is
\* at or above a configured top offset pins the element to the top:
\* affix-top.bs.affix is dispatched and the element carries affix-top.
C23_TopPinned ==
    [][ (/\ affix'.inst
         /\ Len(fired') = 2
         /\ affix.unpin = Null
         /\ affix'.offset[1].top >= 1
         /\ ~AffixAtBottom(affix')
         /\ affix'.scrollTop <= affix'.offset[1].top)
        => /\ fired' = <<Ev("affix-top.bs.affix", 0), Ev("affixed-top.bs.affix", 0)>>
           /\ "affix-top" \in affix'.classes ]_vars

\* C24 (as claimed): a call-time offset takes precedence over the
\* data-offset attribute, which takes precedence over the default; on an
\* element without data-offset the call-time offset is the effective one.
C24_CallTimeOverData ==
    \A callOffset \in {Null} \cup {Val(o) : o \in AffixOffsets} :
       Affix_options(callOffset, affix.dataOffset).offset =
          IF callOffset # Null THEN callOffset
          ELSE IF affix.dataOffset # Null THEN affix.dataOffset
          ELSE AffixDefaults.offset

\* C25 (as claimed): at most one live instance, one whose listeners are
\* still attached, exists for the alert element, however instances are
\* constructed.
C25_OneLiveInstance ==
    Cardinality({i \in 1..Len(alert.inst) : alert.inst[i] /\ i \in alert.listeners}) <= 1

\* C26 (as claimed): once the scrollspy instance is disposed, the registry
\* holds no instance for the element, the observer is disconnected and no
\* scroll handler of the instance is left on the scroll element, whatever
\* preceded dispose().
C26_DisposeDetachesAll ==
    (scrollspy.made /\ ~scrollspy.live)
    => /\ ~scrollspy.reg
       /\ ~scrollspy.observing
       /\ scrollspy.listeners = 0

\* C27 (as claimed): with a positive show delay, given as a number or as
\* {show, hide}, entering the element dispatches no show event and attaches
\* no tip; the show is left to the delay timer, which a leave cancels.
C27_DelayedShowWaits ==
    [][ (/\ tooltip.inst
         /\ tooltip.delay # "none"
         /\ tooltip.hoverState # "in"
         /\ tooltip'.hoverState = "in"
         /\ ~tooltip.attached)
        => /\ \A k \in 1..Len(fired') : fired'[k] # Ev("show.bs.tooltip", 0)
           /\ ~tooltip'.attached ]_vars

\* C28 (as claimed): on an instance that is disabled or whose title is
\* empty no step dispatches show or inserted, attaches the tip or sets
\* aria-describedby: show() aborts silently.
C28_SilentAbort ==
    [][ (tooltip.inst /\ (~tooltip.isEnabled \/ ~tooltip.title))
        => /\ \A k \in 1..Len(fired') :
                 fired'[k][1] \notin {"show.bs.tooltip", "inserted.bs.tooltip"}
           /\ tooltip'.attached => tooltip.attached
           /\ tooltip'.describedby => tooltip.describedby ]_vars

InitPopover ==
    /\ dropdown = DropdownInit
    /\ collapse = CollapseInit
    /\ carousel = CarouselInit(TRUE, TRUE, TRUE, TRUE)
    /\ modal = ModalInit([m \in Modals |-> TRUE])
    /\ tooltip = TooltipInit
    /\ affix = AffixInit(Null)
    /\ tab = TabInit(1, {}, TRUE)
    /\ alert = AlertInit(TRUE, TRUE)
    /\ button = ButtonInit(TRUE, [b \in Buttons |-> "radio"], {})
    /\ scrollspy = SpyInit(SpyExample)
    /\ popover = PopoverInit
    /\ registry = RegistryInit
    /\ fired = <<>>
    /\ called = Call("load", 0)

SpecPopover == InitPopover /\ [][NextPopover]_vars

\* C29 (as claimed): show() on an enabled popover, its show event not
\* prevented, attaches the tip (show and inserted dispatched) exactly when
\* the title or the content resolves non-empty.
C29_ShownIffTitleOrContent ==
    [][ (called' = Call("show", 0) /\ popover.isEnabled)
        => ((popover.title \/ popover.content)
              <=> /\ popover'.attached
                  /\ fired' = <<Ev("show.bs.popover", 0), Ev("inserted.bs.popover", 0)>>) ]_vars


(***************************************************************************)
(* The legacy adapter $.fn.collapse  (src/unnamed/part_007, 330-343)       *)
(***************************************************************************)
\* new Collapse(element, options) as the adapter calls it: no data-toggle
\* on the element and a string argument, so options.toggle is the default
\* of DEFAULTS (true) and the constructor toggles once
Collapse_new(r, i, toggle, pvShow, pvHide) ==
    LET r0 == [r EXCEPT
                  !.c = Collapse_addAriaAndCollapsedClass(
                           [r.c EXCEPT ![i].inst = TRUE,
                                       ![i].trans = FALSE], i)]
    IN IF toggle THEN Collapse_toggle(r0, i, pvShow, pvHide) ELSE r0

Collapse_DEFAULTS == [toggle |-> TRUE]

\* $(el).collapse(option) with a string option
Collapse_plugin(r, i, option, pvShow, pvHide) ==
    LET r1 == IF ~r.c[i].inst /\ option # "dispose"
              THEN Collapse_new(r, i, Collapse_DEFAULTS.toggle, pvShow, pvHide)
              ELSE r
    IN IF ~r1.c[i].inst THEN r1
       ELSE CASE option = "show" -> Collapse_show(r1, i, pvShow, pvHide)
              [] option = "hide" -> Collapse_hide(r1, i, pvHide)
              [] option = "toggle" -> Collapse_toggle(r1, i, pvShow, pvHide)
              [] OTHER -> [r1 EXCEPT !.c[i].inst = FALSE,
                                     !.c[i].trans = FALSE,
                                     !.c[i].pend = "none"]

\* no panel of the accordion has an operation in flight
Collapse_settled(c) ==
    \A k \in Panels : c[k].pend = "none" /\ ~c[k].trans /\ ~c[k].collapsing

\* the page calls the adapter on a settled accordion; its listeners prevent
\* nothing
ColPlugin(i, option) ==
    /\ Collapse_settled(collapse)
    /\ LET r == Collapse_plugin(ColStart, i, option, {}, {}) IN
          /\ collapse' = r.c
          /\ fired' = r.ev
          /\ called' = Call(option, i)
          /\ UNCHANGED <<dropdown, carousel, modal, tooltip, affix, tab,
                         alert, button, scrollspy, popover, registry>>

NextCollapsePlugin ==
    \/ \E i \in Panels : ColPlugin(i, "show")
    \/ \E i \in Panels : ColPlugin(i, "hide")
    \/ \E i \in Panels : ColPlugin(i, "toggle")
    \/ \E i \in Panels : ColPlugin(i, "dispose")
    \/ \E i \in Panels : ColAnimationFinished(i)

\* every panel starts expanded or collapsed, without an instance
InitCollapsePlugin ==
    /\ dropdown = DropdownInit
    /\ collapse \in {[i \in Panels |->
                         [CollapseInit[i] EXCEPT !.in = (i \in S)]]
                        : S \in SUBSET Panels}
    /\ carousel = CarouselInit(TRUE, TRUE, TRUE, TRUE)
    /\ InitOthers

SpecCollapsePlugin == InitCollapsePlugin /\ [][NextCollapsePlugin]_vars

\* C30 (as claimed): once the operation started by collapse('show') through
\* the legacy adapter has settled the element carries class `in', and once
\* the one started by collapse('hide') has settled it does not, whatever the
\* initial state of the element and whether or not the call constructed the
\* instance.
C30_AdapterShowHideSettle ==
    \A i \in Panels :
        Collapse_settled(collapse) =>
            /\ called = Call("show", i) => collapse[i].in
            /\ called = Call("hide", i) => ~collapse[i].in


(***************************************************************************)
(* The legacy adapter $.fn.carousel  (src/unnamed/part_007, 385-403),      *)
(* called with no argument or with an options object.  The element has no  *)
(* data-slide and the object no `slide', so `action' is undefined.         *)
(*   fresh        no instance is registered yet: the adapter constructs it *)
(*   optInterval  options.interval of the adapter is non-zero (the default *)
(*                of Carousel.DEFAULTS unless the object or data-interval  *)
(*                says 0 / false)                                          *)
(* pause() returns undefined, so `data.pause().cycle()' raises a TypeError *)
(* after pause() has run.                                                  *)
(***************************************************************************)
Carousel_plugin(c, fresh, optInterval) ==
    LET c1 == IF fresh
              THEN CarouselInit(c.wrap, c.animated, optInterval, c.reentrant)
              ELSE c
    IN IF optInterval THEN [c |-> Carousel_pause(c1), threw |-> TRUE]
       ELSE [c |-> c1, threw |-> FALSE]

\* the page calls $(el).carousel() or $(el).carousel({interval: ...}); the
\* entry point records whether the call raised and whether the effective
\* interval was non-zero
CarPlugin(fresh, optInterval) ==
    /\ fresh => called = Call("load", 0)
    /\ LET r == Carousel_plugin(carousel, fresh, optInterval) IN
          /\ CarCommit([c |-> r.c, ev |-> <<>>])
          /\ called' = Call(IF r.threw THEN "carousel: TypeError"
                            ELSE "carousel",
                            IF optInterval THEN 1 ELSE 0)

NextCarouselPlugin ==
    \/ \E fresh \in BOOLEAN, optInterval \in BOOLEAN :
          CarPlugin(fresh, optInterval)
    \/ NextCarouselNav

SpecCarouselPlugin == InitCarouselNav /\ [][NextCarouselPlugin]_vars

\* C31 (as claimed): the carousel adapter called with no argument or with an
\* options object whose effective interval is non-zero completes without
\* raising an error and leaves the auto-cycle timer armed.
C31_PluginLeavesCycling ==
    (called \in {Call("carousel", 1), Call("carousel: TypeError", 1)})
        => (called = Call("carousel", 1) /\ carousel.interval)


\* C32 (as claimed): at most one lifecycle operation of an instance is in
\* progress at any time, also when next() or to() is called re-entrantly
\* from a handler of the instance's own cancelable `slide' event: a carousel
\* never has two slides awaiting their animations.
C32_OneOperationInProgress ==
    Len(carousel.pending) <= 1


\* C33 (as claimed): whenever no show() or hide() of the tooltip is suspended,
\* no delay timer is armed and the tip is detached (`hidden' has fired), no
\* reposition subscription made by the tooltip is still active.
C33_NoSubscriptionWhileClosed ==
    (tooltip.inst /\ tooltip.ops = <<>> /\ tooltip.timeout = "none"
        /\ ~tooltip.attached)
        => tooltip.subs = 0


(***************************************************************************)
(* Modal and the body's scrollbar padding.  While no modal is shown or in  *)
(* transition the page may change the body's inline padding-right and the  *)
(* layout (whether the body overflows).                                    *)
(***************************************************************************)
MaxBodyPadding == 40

ModalsIdle ==
    \A m \in Modals : ~modal.el[m].isShown /\ modal.el[m].phase = "none"

MdLayout(padding, overflowing) ==
    /\ ModalsIdle
    /\ MdCommit([MdStart EXCEPT !.md.bodyPadding = padding,
                                !.md.bodyOverflowing = overflowing])

\* the steps of NextModal on the page's first modal, and the page's layout
\* changes; a show() that would pad the body beyond MaxBodyPadding is left
\* out
NextModalScrollbar ==
    \/ \E keyboard \in BOOLEAN, backdrop \in BackdropOptions :
          MdCreate(1, keyboard, backdrop)
    \/ MdShow(1) /\ modal'.bodyPadding <= MaxBodyPadding
    \/ MdHide(1)
    \/ MdToggle(1) /\ modal'.bodyPadding <= MaxBodyPadding
    \/ MdResume(1)
    \/ MdDocEscape
    \/ MdBackdropClick(1)
    \/ MdClick(1)
    \/ MdDispose(1)
    \/ \E padding \in BodyPaddings, overflowing \in BOOLEAN :
          MdLayout(padding, overflowing)

InitModalScrollbar ==
    /\ dropdown = DropdownInit
    /\ collapse = CollapseInit
    /\ carousel = CarouselInit(TRUE, TRUE, TRUE, TRUE)
    /\ \E fade \in BOOLEAN, padding \in BodyPaddings,
          overflowing \in BOOLEAN :
          modal = [ModalInit([m \in Modals |-> fade])
                      EXCEPT !.bodyPadding = padding,
                             !.bodyOverflowing = overflowing]
    /\ tooltip = TooltipInit
    /\ affix = AffixInit(Null)
    /\ fired = <<>>
    /\ InitRest

SpecModalScrollbar == InitModalScrollbar /\ [][NextModalScrollbar]_vars

\* C34 (as claimed): when the hide() that matches a show() of a modal
\* resolves (`hidden' fires) and no other modal is shown, the body's inline
\* padding-right is what it was immediately before that show().
C34_PaddingRestored ==
    [][\A m \in Modals :
          (/\ \E k \in 1..Len(fired') : fired'[k] = Ev("hidden.bs.modal", m)
           /\ \A k \in Modals \ {m} :
                 ~modal'.el[k].isShown /\ modal'.el[k].phase = "none")
             => modal'.bodyPadding = modal.el[m].paddingAtShow]_vars


\* the events of one step include the tooltip event `name'
TtDispatched(evs, name) == \E k \in 1..Len(evs) : evs[k] = Ev(name, 0)

\* C35 (as claimed): the lifecycle events of a tooltip come in cycles show,
\* shown, hide, hidden: once `hide' has been dispatched no `shown' is
\* dispatched before the next `show'.  Stated for two consecutive steps: a
\* step that dispatched `hide' (not prevented: `hidden' followed) and no
\* `show' is not followed by a step that dispatches `shown' and no `show'.
C35_NoShownAfterHide ==
    [][(TtDispatched(fired, "hide.bs.tooltip")
          /\ TtDispatched(fired, "hidden.bs.tooltip")
          /\ ~TtDispatched(fired, "show.bs.tooltip"))
        => ~(TtDispatched(fired', "shown.bs.tooltip")
               /\ ~TtDispatched(fired', "show.bs.tooltip"))]_vars


\* how many closed.bs.alert events a step dispatched
Alert_closedCount(evs) ==
    Cardinality({k \in 1..Len(evs) : evs[k] = Ev("closed.bs.alert", AlertEl)})

\* C36 (as claimed): closed.bs.alert is dispatched at most once per alert
\* element: no step dispatches it twice, and none dispatches it once the
\* element has been closed (an earlier `closed' took it out of the document).
C36_ClosedAtMostOnce ==
    [][ /\ Alert_closedCount(fired') <= 1
        /\ ~alert.inDom => Alert_closedCount(fired') = 0 ]_vars


\* C37 (as claimed): after an explicit pause() the auto-cycle timer stays
\* disarmed until cycle() is called explicitly: a pointer enter or leave that
\* follows the pause() does not arm it.
C37_PauseSurvivesPointer ==
    [][(called = Call("pause", 0)
          /\ called' \in {Call("mouseenter", 0), Call("mouseleave", 0)})
        => ~carousel'.interval]_vars


\* C38 (as claimed): hiding or disposing one modal leaves the handlers of the
\* other instances in place: an Escape press dispatches hide.bs.modal on
\* every modal that is shown, settled and has the keyboard option enabled.
C38_EscapeStillCloses ==
    [][\A m \in Modals :
          (/\ EscapePressed'
           /\ modal.el[m].inst /\ modal.el[m].isShown /\ modal.el[m].keyboard
           /\ modal.el[m].phase = "none")
             => Fires("hide.bs.modal", m)']_vars


SpecRegistry == InitDropdown /\ [][NextRegistry]_vars

\* the kind whose instance the step constructed or disposed
Registry_actedKind ==
    IF called'[1] = "dispose" THEN registry.kind[called'[2]] ELSE called'[1]

\* C39 (as claimed): constructing or disposing an instance of one kind on an
\* element leaves the element's registry entries of every other kind as they
\* were.
C39_OtherKindsUntouched ==
    [][\A kind \in Kinds \ {Registry_actedKind} :
          getInstance(registry', Registry_key(kind))
             = getInstance(registry, Registry_key(kind))]_vars


\* C40 (as claimed): a live Scrollspy instance has exactly one scroll
\* listener registered on its scroll element, however often refresh() was
\* called, so that one scroll event requests exactly one position evaluation.
C40_OneScrollListener ==
    (scrollspy.made /\ scrollspy.live) => scrollspy.listeners = 1

=============================================================================
